---- MODULE Spec2Model ----
(***************************************************************************)
(* A model of the noodles record codecs and index builders:                *)
(*   - noodles-bam  record/codec/encoder.rs      (encode, put_bin, ...)    *)
(*   - noodles-bam  record/codec/decoder/data.rs (get_data)                *)
(*   - noodles-csi  bin/builder.rs, index/linear_index.rs                  *)
(*   - noodles-cram record/resolve.rs                                     *)
(* Each subsystem has its own specification (SpecBin, SpecBam, SpecData,   *)
(* SpecIndex, SpecCram); the variables of the other subsystems stay idle.  *)
(***************************************************************************)
EXTENDS Integers, Sequences, FiniteSets, TLC

VARIABLES
    pc,               \* position of the driver: "init" | "done" | ...
    alignment_start,  \* region_to_bin: argument (1-based position)
    alignment_end,    \* region_to_bin: argument (1-based position)
    bin,              \* region_to_bin: io::Result<u16>
    bins,             \* index: bin id -> Builder {id, loffset, chunks}
    linear_index,     \* index: LinearIndex = Vec<VirtualPosition>
    inserted,         \* index: the (start, end, chunk) offered so far, in order
    cram_features,    \* cram: the record's feature list
    cram_start,       \* cram: alignment_start of the record (1-based, i32)
    cram_read_len,    \* cram: read length
    resolved_bases,   \* cram: result of resolve_bases
    resolved_cigar,   \* cram: result of resolve_features
    src_fields,       \* data: the pieces the source buffer was put together from
    data_src,         \* data: the source buffer handed to get_data
    data,             \* data: the Data map handed to get_data (reused across calls)
    data_result,      \* data: result of get_data
    data_entry,       \* data: the Data map as the last get_data call found it
    bam_header,       \* bam: the header's reference sequence lengths, by id
    bam_record,       \* bam: the RecordBuf handed to encode (CIGAR and bases in pages)
    bam_dst,          \* bam: the destination buffer (in pages)
    bam_result,       \* bam: result of encode
    bin_builder,      \* builder: the bin Builder
    added,            \* builder: the chunks handed to add_chunk so far, in order
    built             \* builder: the Bin returned by build

binVars == <<alignment_start, alignment_end, bin>>

indexVars == <<bins, linear_index, inserted>>

cramVars == <<cram_features, cram_start, cram_read_len, resolved_bases, resolved_cigar>>

dataVars == <<src_fields, data_src, data, data_result, data_entry>>

bamVars == <<bam_header, bam_record, bam_dst, bam_result>>

builderVars == <<bin_builder, added, built>>

vars == <<pc, binVars, indexVars, cramVars, dataVars, bamVars, builderVars>>

(***************************************************************************)
(* Results, options and fixed-width integers                               *)
(***************************************************************************)
\* Option: None and Some(v); also the value of a result variable before the call
None == [some |-> FALSE]

Some(v) == [some |-> TRUE, val |-> v]

Ok(v) == [ok |-> TRUE, val |-> v]

Err(kind) == [ok |-> FALSE, err |-> kind]

Min(a, b) == IF a <= b THEN a ELSE b

Max(a, b) == IF a >= b THEN a ELSE b

\* x >> k on an unsigned value
Shr(x, k) == x \div (2 ^ k)

U16_MAX == 65535

\* u16::try_from(n).map_err(|e| io::Error::new(io::ErrorKind::InvalidInput, e))
U16Wrapping(n) == Ok(n % (U16_MAX + 1))

U16TryFrom(n) == IF 0 <= n /\ n <= U16_MAX THEN Ok(n) ELSE Err("InvalidInput")

(***************************************************************************)
(* noodles-bam encoder: bin arithmetic                                     *)
(***************************************************************************)
UNMAPPED_BIN == 4680

region_to_bin_no_offset(start1, end1) ==
    LET start == start1
        end   == end1 - 1
        b == IF Shr(start, 14) = Shr(end, 14) THEN ((2 ^ 15) - 1) \div 7 + Shr(start, 14)
             ELSE IF Shr(start, 17) = Shr(end, 17) THEN ((2 ^ 12) - 1) \div 7 + Shr(start, 17)
             ELSE IF Shr(start, 20) = Shr(end, 20) THEN ((2 ^ 9) - 1) \div 7 + Shr(start, 20)
             ELSE IF Shr(start, 23) = Shr(end, 23) THEN ((2 ^ 6) - 1) \div 7 + Shr(start, 23)
             ELSE IF Shr(start, 26) = Shr(end, 26) THEN ((2 ^ 3) - 1) \div 7 + Shr(start, 26)
             ELSE 0
    IN U16TryFrom(b)

region_to_bin(start1, end1) ==
    LET start == start1 - 1
        end   == end1 - 1
        b == IF Shr(start, 14) = Shr(end, 14) THEN ((2 ^ 15) - 1) \div 7 + Shr(start, 14)
             ELSE IF Shr(start, 17) = Shr(end, 17) THEN ((2 ^ 12) - 1) \div 7 + Shr(start, 17)
             ELSE IF Shr(start, 20) = Shr(end, 20) THEN ((2 ^ 9) - 1) \div 7 + Shr(start, 20)
             ELSE IF Shr(start, 23) = Shr(end, 23) THEN ((2 ^ 6) - 1) \div 7 + Shr(start, 23)
             ELSE IF Shr(start, 26) = Shr(end, 26) THEN ((2 ^ 3) - 1) \div 7 + Shr(start, 26)
             ELSE 0
    IN U16TryFrom(b)

(***************************************************************************)
(* SpecBin: region_to_bin applied to intervals around every level boundary *)
(***************************************************************************)
\* how many multiples of each level's span are probed
PosMult == 2

LevelShifts == {14, 17, 20, 23, 26, 29}

\* the largest position of the binning scheme (2^29), and positions past it
MaxBinPos == 2 ^ 29

BinPositions ==
    {1, 8, 13, 63245986, 2 ^ 30, (2 ^ 30) + 1}
    \cup {(U16_MAX - 4681) * (2 ^ 14) + d : d \in {1, 2 ^ 14, (2 ^ 14) + 1}}
    \cup {p \in {k * (2 ^ s) + d : s \in LevelShifts, k \in 1 .. PosMult, d \in {0, 1}} :
            p <= (2 ^ 30) + 1}

BinIdle == alignment_start = 0 /\ alignment_end = 0 /\ bin = None

IndexIdle == bins = <<>> /\ linear_index = <<>> /\ inserted = <<>>

CramIdle ==
    /\ cram_features = <<>> /\ cram_start = 0 /\ cram_read_len = 0
    /\ resolved_bases = None /\ resolved_cigar = None

DataIdle ==
    /\ src_fields = <<>> /\ data_src = <<>> /\ data = <<>> /\ data_result = None
    /\ data_entry = <<>>

BamIdle == bam_header = <<>> /\ bam_record = None /\ bam_dst = <<>> /\ bam_result = None

BuilderIdle == bin_builder = None /\ added = <<>> /\ built = None

InitBin ==
    /\ pc = "init"
    /\ IndexIdle
    /\ CramIdle
    /\ DataIdle
    /\ BamIdle
    /\ BuilderIdle
    /\ alignment_start \in BinPositions
    /\ alignment_end \in {e \in BinPositions : alignment_start <= e}
    /\ bin = None

RegionToBin ==
    /\ pc = "init"
    /\ bin' = region_to_bin(alignment_start, alignment_end)
    /\ pc' = "done"
    /\ UNCHANGED <<alignment_start, alignment_end>>
    /\ UNCHANGED <<indexVars, cramVars, dataVars, bamVars, builderVars>>

NextBin == RegionToBin

SpecBin == InitBin /\ [][NextBin]_vars

\* The reference routine of the SAM specification, section 5.3:
\*   int reg2bin(int beg, int end) { --end; if (beg>>14 == end>>14) return ... }
\* over a 0-based half-open interval [beg, end).
reg2bin(beg, end) ==
    LET e == end - 1
    IN  IF Shr(beg, 14) = Shr(e, 14) THEN 4681 + Shr(beg, 14)
        ELSE IF Shr(beg, 17) = Shr(e, 17) THEN 585 + Shr(beg, 17)
        ELSE IF Shr(beg, 20) = Shr(e, 20) THEN 73 + Shr(beg, 20)
        ELSE IF Shr(beg, 23) = Shr(e, 23) THEN 9 + Shr(beg, 23)
        ELSE IF Shr(beg, 26) = Shr(e, 26) THEN 1 + Shr(beg, 26)
        ELSE 0

\* C3: for every 1 <= start <= end <= 2^29, region_to_bin(start, end) is Ok and
\* equals the SAM reference routine reg2bin(start-1, end); (8,13) gives 4681 and
\* (63245986,63245986) gives 8541.
C3_BinMatchesReference ==
    (pc = "done" /\ alignment_end <= MaxBinPos) =>
        /\ bin = Ok(reg2bin(alignment_start - 1, alignment_end))
        /\ (alignment_start = 8 /\ alignment_end = 13 => bin = Ok(4681))
        /\ (alignment_start = 63245986 /\ alignment_end = 63245986 => bin = Ok(8541))

\* a region spanning a level boundary (falls to a coarser level) has been binned
C3_Witness ==
    /\ pc = "done"
    /\ alignment_start = 2 ^ 14
    /\ alignment_end = (2 ^ 14) + 1
    /\ bin = Ok(585)

(***************************************************************************)
(* noodles-csi: bin builder and linear index                               *)
(***************************************************************************)
\* bgzf::VirtualPosition::default()
VIRTUAL_POSITION_DEFAULT == 0

\* bgzf::VirtualPosition::MAX (u64::MAX in the source); the model's integers are
\* 32 bits wide, so the sentinel is the largest of them, above every position used.
VIRTUAL_POSITION_MAX == 2147483647

Chunk(s, e) == [start |-> s, end |-> e]

\* Builder::default()
BuilderDefault == [id |-> 0, loffset |-> VIRTUAL_POSITION_MAX, chunks |-> <<>>]

\* Builder::set_id
set_id(builder, id) == [builder EXCEPT !.id = id]

add_chunk_no_merge(builder, chunk) ==
    [builder EXCEPT !.loffset = IF chunk.start < @ THEN chunk.start ELSE @,
                    !.chunks = Append(@, chunk)]

add_chunk_strict(builder, chunk) ==
    LET loffset == IF chunk.start < builder.loffset THEN chunk.start ELSE builder.loffset
        n == Len(builder.chunks)
    IN  IF n > 0 /\ chunk.start < builder.chunks[n].end
        THEN [builder EXCEPT !.loffset = loffset,
                             !.chunks[n] = Chunk(builder.chunks[n].start, chunk.end)]
        ELSE [builder EXCEPT !.loffset = loffset,
                             !.chunks = Append(@, chunk)]

\* Builder::add_chunk
add_chunk(builder, chunk) ==
    LET loffset == IF chunk.start < builder.loffset THEN chunk.start ELSE builder.loffset
        n == Len(builder.chunks)
    IN  IF n > 0 /\ chunk.start <= builder.chunks[n].end
        THEN [builder EXCEPT !.loffset = loffset,
                             !.chunks[n] = Chunk(builder.chunks[n].start, chunk.end)]
        ELSE [builder EXCEPT !.loffset = loffset,
                             !.chunks = Append(@, chunk)]

\* Builder::build
build(builder) == [id |-> builder.id, loffset |-> builder.loffset, chunks |-> builder.chunks]

WINDOW_SIZE == 16384

\* Vec::resize(new_len, value) as used by update: only ever grows here
Resize(v, new_len, value) ==
    [i \in 1 .. new_len |-> IF i <= Len(v) THEN v[i] ELSE value]

\* LinearIndex::min_offset (the Rust index i is the sequence index i + 1)
min_offset(li, start) ==
    LET i == (start - 1) \div WINDOW_SIZE
    IN  IF i < Len(li) THEN li[i + 1] ELSE VIRTUAL_POSITION_DEFAULT

\* LinearIndex::last_first_start_position
last_first_start_position(li) == IF Len(li) = 0 THEN None ELSE li[Len(li)]

update_overwrite(li, start, end, chunk) ==
    LET so == (start - 1) \div WINDOW_SIZE
        eo == (end - 1) \div WINDOW_SIZE
        r  == IF eo >= Len(li) THEN Resize(li, eo + 1, VIRTUAL_POSITION_DEFAULT) ELSE li
    IN  [i \in 1 .. Len(r) |-> IF so <= i - 1 /\ i - 1 <= eo THEN chunk.start ELSE r[i]]

update_first_window(li, start, end, chunk) ==
    LET so == (start - 1) \div WINDOW_SIZE
        eo == (end - 1) \div WINDOW_SIZE
        r  == IF eo >= Len(li) THEN Resize(li, eo + 1, VIRTUAL_POSITION_DEFAULT) ELSE li
    IN  [i \in 1 .. Len(r) |->
            IF i - 1 = so /\ r[i] = VIRTUAL_POSITION_DEFAULT THEN chunk.start ELSE r[i]]

\* LinearIndex::update
update(li, start, end, chunk) ==
    LET linear_index_start_offset == (start - 1) \div WINDOW_SIZE
        linear_index_end_offset   == (end - 1) \div WINDOW_SIZE
        r == IF linear_index_end_offset >= Len(li)
             THEN Resize(li, linear_index_end_offset + 1, VIRTUAL_POSITION_DEFAULT)
             ELSE li
    IN  [i \in 1 .. Len(r) |->
            IF /\ linear_index_start_offset <= i - 1
               /\ i - 1 <= linear_index_end_offset
               /\ r[i] = VIRTUAL_POSITION_DEFAULT
            THEN chunk.start
            ELSE r[i]]

(***************************************************************************)
(* SpecIndex: records offered to one reference's index, in any order       *)
(***************************************************************************)
MaxInserts == 2

MaxVPos == 2

\* first and last position of the first windows, and the first of the third
IndexPositions == {1, WINDOW_SIZE, WINDOW_SIZE + 1, 2 * WINDOW_SIZE + 1}

IndexIntervals == {iv \in IndexPositions \X IndexPositions : iv[1] <= iv[2]}

\* a chunk is a half-open interval [start, end) of virtual positions
Chunks == {c \in [start : 0 .. MaxVPos, end : 0 .. MaxVPos] : c.start <= c.end}

\* two insertions with larger, distinct chunk starts
IndexExamples ==
    {<<(<<1, WINDOW_SIZE>>), Chunk(5, 13)>>,
     <<(<<WINDOW_SIZE + 1, WINDOW_SIZE + 1>>), Chunk(21, 34)>>}

\* what is offered to the index: an interval and a chunk
IndexInputs == (IndexIntervals \X Chunks) \cup IndexExamples

\* the bin of a record: the index is built with the BAM scheme (min_shift 14, depth 5)
RecordBin(start, end) == region_to_bin(start, end).val

\* one insertion: the record's bin is obtained or created, the chunk added to it,
\* and the linear index updated
InsertBins(bs, start, end, chunk) ==
    LET id == RecordBin(start, end)
        builder == IF id \in DOMAIN bs THEN bs[id] ELSE set_id(BuilderDefault, id)
    IN  [b \in (DOMAIN bs) \cup {id} |-> IF b = id THEN add_chunk(builder, chunk) ELSE bs[b]]

InitIndex ==
    /\ pc = "index"
    /\ BinIdle
    /\ CramIdle
    /\ DataIdle
    /\ BamIdle
    /\ BuilderIdle
    /\ bins = <<>>
    /\ linear_index = <<>>
    /\ inserted = <<>>

Insert ==
    /\ pc = "index"
    /\ Len(inserted) < MaxInserts
    /\ \E input \in IndexInputs :
        LET iv == input[1]
            chunk == input[2]
        IN  /\ bins' = InsertBins(bins, iv[1], iv[2], chunk)
            /\ linear_index' = update(linear_index, iv[1], iv[2], chunk)
            /\ inserted' = Append(inserted,
                                  [start |-> iv[1], end |-> iv[2], chunk |-> chunk])
    /\ UNCHANGED pc
    /\ UNCHANGED <<binVars, cramVars, dataVars, bamVars, builderVars>>

NextIndex == Insert

SpecIndex == InitIndex /\ [][NextIndex]_vars

(***************************************************************************)
(* Index query (binning_index query + optimize_chunks), from the           *)
(* specification's section 4.7                                             *)
(***************************************************************************)
\* reg2bins of the SAM specification over the 1-based inclusive [start, end]
reg2bins(start, end) ==
    LET b == start - 1
        e == end - 1
    IN  {0}
        \cup {1 + k : k \in Shr(b, 26) .. Shr(e, 26)}
        \cup {9 + k : k \in Shr(b, 23) .. Shr(e, 23)}
        \cup {73 + k : k \in Shr(b, 20) .. Shr(e, 20)}
        \cup {585 + k : k \in Shr(b, 17) .. Shr(e, 17)}
        \cup {4681 + k : k \in Shr(b, 14) .. Shr(e, 14)}

RECURSIVE SortByStart(_)
SortByStart(S) ==
    IF S = {} THEN <<>>
    ELSE LET m == CHOOSE c \in S : \A d \in S :
                      c.start < d.start \/ (c.start = d.start /\ c.end <= d.end)
         IN  <<m>> \o SortByStart(S \ {m})

RECURSIVE MergeChunks(_)
MergeChunks(cs) ==
    IF Len(cs) <= 1 THEN cs
    ELSE IF cs[2].start <= cs[1].end
         THEN MergeChunks(<<Chunk(cs[1].start, Max(cs[1].end, cs[2].end))>>
                          \o SubSeq(cs, 3, Len(cs)))
         ELSE <<cs[1]>> \o MergeChunks(Tail(cs))

\* the chunks of the candidate bins, minus those ending at or before
\* min_offset(start), sorted and merged
query(bs, li, start, end) ==
    LET candidates == reg2bins(start, end) \cap DOMAIN bs
        all == UNION {{bs[id].chunks[i] : i \in 1 .. Len(bs[id].chunks)} : id \in candidates}
        min == min_offset(li, start)
        kept == {c \in all : c.end > min}
    IN  MergeChunks(SortByStart(kept))

\* the union of the chunks of cs covers every virtual position of chunk
Covers(cs, chunk) ==
    \A v \in chunk.start .. (chunk.end - 1) :
        \E i \in 1 .. Len(cs) : cs[i].start <= v /\ v < cs[i].end

Overlaps(iv, r) == iv[1] <= r.end /\ r.start <= iv[2]

QueryComplete ==
    \A k \in 1 .. Len(inserted) : \A iv \in IndexIntervals :
        Overlaps(iv, inserted[k]) =>
            Covers(query(bins, linear_index, iv[1], iv[2]), inserted[k].chunk)

\* records arrive sorted by start and their chunks in file order: each chunk is
\* non-empty and begins at or after the end of the one before
CoordinateOrder ==
    /\ \A k \in 1 .. Len(inserted) : inserted[k].chunk.start < inserted[k].chunk.end
    /\ \A k \in 1 .. Len(inserted) - 1 :
        /\ inserted[k].start <= inserted[k + 1].start
        /\ inserted[k].chunk.end <= inserted[k + 1].chunk.start

\* C5: after a sequence of index insertions, for every inserted (start, end, chunk)
\* and every query interval overlapping [start, end], the union of the query result
\* covers the whole of chunk.  Stated over the insertions made in coordinate order,
\* the order the index is specified for and a part of the sequences the claim covers.
C5_QueryComplete == CoordinateOrder => QueryComplete

Last(s) == s[Len(s)]

\* C6: inserting the same (start, end, chunk) twice in a row yields the same index
\* state as inserting it once: the second add_chunk leaves every bin's chunk list
\* and loffset as the first left them, and the second update leaves the vector.
C6_InsertTwiceIsInsertOnce ==
    [][(/\ Len(inserted) >= 1
        /\ Len(inserted') = Len(inserted) + 1
        /\ Last(inserted') = Last(inserted))
       => (bins' = bins /\ linear_index' = linear_index)]_vars

\* the same record, spanning two windows with a non-empty chunk, was offered twice
C6_Witness ==
    /\ Len(inserted) = 2
    /\ inserted[1] = inserted[2]
    /\ inserted[1].start = 1
    /\ inserted[1].end = WINDOW_SIZE + 1
    /\ inserted[1].chunk = Chunk(1, 2)
    /\ linear_index = <<1, 1>>
    /\ bins[585].chunks = <<Chunk(1, 2)>>

\* update is called in non-decreasing start order, chunk starts non-decreasing too
StartOrder ==
    \A k \in 1 .. Len(inserted) - 1 :
        /\ inserted[k].start <= inserted[k + 1].start
        /\ inserted[k].chunk.start <= inserted[k + 1].chunk.start

\* C7 (as claimed): with updates in non-decreasing start order, adjacent entries
\* of the linear index never decrease.
C7_AdjacentEntriesMonotone ==
    StartOrder =>
        \A i \in 1 .. Len(linear_index) - 1 : linear_index[i] <= linear_index[i + 1]

\* C7 (amended): with updates in non-decreasing start order, the entries that hold
\* a position other than the default never decrease from a window to a later one.
C7_SetEntriesMonotone ==
    StartOrder =>
        \A i \in 1 .. Len(linear_index), j \in 1 .. Len(linear_index) :
            (/\ i < j
             /\ linear_index[i] # VIRTUAL_POSITION_DEFAULT
             /\ linear_index[j] # VIRTUAL_POSITION_DEFAULT)
            => linear_index[i] <= linear_index[j]

\* two updates in start order set the first and the third window; the second keeps
\* the default
C7_Witness ==
    /\ Len(inserted) = 2
    /\ StartOrder
    /\ linear_index = <<1, VIRTUAL_POSITION_DEFAULT, 2>>

(***************************************************************************)
(* noodles-cram: record feature resolution                                 *)
(***************************************************************************)
\* a Rust panic (index out of bounds, todo!()): the call does not return
Panic == [ok |-> FALSE, err |-> "panic"]

Feature(kind, position, arg) == [kind |-> kind, position |-> position, arg |-> arg]

\* Base::try_from(base).unwrap_or_default(): anything but A, C, G, T is N
BaseOrDefault(base) == IF base \in {"A", "C", "G", "T"} THEN base ELSE "N"

\* SubstitutionMatrix::default(): for each reference base, the read base of codes 0..3
SubstitutionMatrixDefault ==
    [b \in {"A", "C", "G", "T", "N"} |->
        CASE b = "A" -> <<"C", "G", "T", "N">>
          [] b = "C" -> <<"A", "G", "T", "N">>
          [] b = "G" -> <<"A", "C", "T", "N">>
          [] b = "T" -> <<"A", "C", "G", "N">>
          [] b = "N" -> <<"A", "C", "G", "T">>]

\* SubstitutionMatrix::get(reference_base, code)
SubstitutionMatrixGet(matrix, reference_base, code) == matrix[reference_base][code + 1]

\* the cursor state of resolve_bases; ok = FALSE once an index was out of bounds
\* or an unhandled variant was met
\* buf[read_pos + k] = src[k] for the n bytes of src
WriteRead(st, src) ==
    IF st.read_pos + Len(src) > Len(st.buf)
    THEN [st EXCEPT !.ok = FALSE]
    ELSE [st EXCEPT !.buf = [i \in 1 .. Len(st.buf) |->
                                IF st.read_pos < i /\ i <= st.read_pos + Len(src)
                                THEN src[i - st.read_pos] ELSE st.buf[i]],
                    !.read_pos = @ + Len(src)]

\* while read_pos < upto { buf[read_pos] = reference_sequence[ref_pos]; both += 1 }
CopyReference(st, reference_sequence, upto) ==
    LET n == IF upto > st.read_pos THEN upto - st.read_pos ELSE 0
    IN  IF st.read_pos + n > Len(st.buf) \/ st.ref_pos + n > Len(reference_sequence)
        THEN [st EXCEPT !.ok = FALSE]
        ELSE [WriteRead(st, SubSeq(reference_sequence, st.ref_pos + 1, st.ref_pos + n))
                 EXCEPT !.ref_pos = st.ref_pos + n]

\* the match arm of resolve_bases
ApplyFeature(st, reference_sequence, substitution_matrix, feature) ==
    CASE feature.kind = "Substitution" ->
            IF st.ref_pos >= Len(reference_sequence) THEN [st EXCEPT !.ok = FALSE]
            ELSE LET reference_base == BaseOrDefault(reference_sequence[st.ref_pos + 1])
                     read_base == SubstitutionMatrixGet(substitution_matrix,
                                                        reference_base, feature.arg)
                 IN  [WriteRead(st, <<read_base>>) EXCEPT !.ref_pos = st.ref_pos + 1]
      [] feature.kind = "Insertion" -> WriteRead(st, feature.arg)
      [] feature.kind = "Deletion" -> [st EXCEPT !.ref_pos = @ + feature.arg]
      [] feature.kind = "InsertBase" -> WriteRead(st, <<feature.arg>>)
      [] feature.kind = "SoftClip" -> WriteRead(st, feature.arg)
      [] feature.kind = "HardClip" -> st
      [] OTHER -> [st EXCEPT !.ok = FALSE]

RECURSIVE ResolveBasesLoop(_, _, _, _)
ResolveBasesLoop(st, reference_sequence, substitution_matrix, features) ==
    IF features = <<>> \/ ~st.ok THEN st
    ELSE LET feature == Head(features)
             copied == CopyReference(st, reference_sequence, feature.position - 1)
             applied == IF copied.ok
                        THEN ApplyFeature(copied, reference_sequence,
                                          substitution_matrix, feature)
                        ELSE copied
         IN  ResolveBasesLoop(applied, reference_sequence, substitution_matrix,
                              Tail(features))

resolve_bases_from_zero(reference_sequence, substitution_matrix, features, start, read_len) ==
    LET st0 == [buf |-> [i \in 1 .. read_len |-> "-"], ref_pos |-> 0, read_pos |-> 0,
                ok |-> TRUE]
        st1 == ResolveBasesLoop(st0, reference_sequence, substitution_matrix, features)
        st2 == IF st1.ok THEN CopyReference(st1, reference_sequence, read_len) ELSE st1
    IN  IF st2.ok THEN Ok(st2.buf) ELSE Panic

resolve_bases(reference_sequence, substitution_matrix, features, start, read_len) ==
    LET st0 == [buf |-> [i \in 1 .. read_len |-> "-"], ref_pos |-> start - 1,
                read_pos |-> 0, ok |-> TRUE]
        st1 == ResolveBasesLoop(st0, reference_sequence, substitution_matrix, features)
        \* for base in buf.iter_mut().skip(read_pos) { *base = reference_sequence[ref_pos] }
        st2 == IF st1.ok THEN CopyReference(st1, reference_sequence, read_len) ELSE st1
    IN  IF st2.ok THEN Ok(st2.buf) ELSE Panic

Op(kind, len) == [kind |-> kind, len |-> len]

FeatureOpInsertBaseAsMatch(feature) ==
    CASE feature.kind = "Substitution" -> Op("Match", 1)
      [] feature.kind = "Insertion" -> Op("Insertion", Len(feature.arg))
      [] feature.kind = "Deletion" -> Op("Deletion", feature.arg)
      [] feature.kind = "InsertBase" -> Op("Match", 1)
      [] feature.kind = "ReferenceSkip" -> Op("Skip", feature.arg)
      [] feature.kind = "SoftClip" -> Op("SoftClip", Len(feature.arg))
      [] feature.kind = "Padding" -> Op("Pad", feature.arg)
      [] feature.kind = "HardClip" -> Op("HardClip", feature.arg)
      [] OTHER -> None

\* the (kind, len) of a feature in resolve_features; None for the variants that
\* the match skips
FeatureOp(feature) ==
    CASE feature.kind = "Substitution" -> Op("Match", 1)
      [] feature.kind = "Insertion" -> Op("Insertion", Len(feature.arg))
      [] feature.kind = "Deletion" -> Op("Deletion", feature.arg)
      [] feature.kind = "InsertBase" -> Op("Insertion", 1)
      [] feature.kind = "ReferenceSkip" -> Op("Skip", feature.arg)
      [] feature.kind = "SoftClip" -> Op("SoftClip", Len(feature.arg))
      [] feature.kind = "Padding" -> Op("Pad", feature.arg)
      [] feature.kind = "HardClip" -> Op("HardClip", feature.arg)
      [] OTHER -> None

RECURSIVE ResolveFeaturesLoop(_, _, _)
ResolveFeaturesLoop(ops, i, features) ==
    IF features = <<>> THEN [ops |-> ops, i |-> i]
    ELSE LET feature == Head(features)
             gap == feature.position > i
             ops1 == IF gap THEN Append(ops, Op("Match", feature.position - i)) ELSE ops
             i1 == IF gap THEN feature.position ELSE i
             op == FeatureOp(feature)
         IN  IF op = None
             THEN ResolveFeaturesLoop(ops1, i1, Tail(features))
             ELSE ResolveFeaturesLoop(Append(ops1, op), i1 + op.len, Tail(features))

resolve_features_inclusive(features, read_len) ==
    LET r == ResolveFeaturesLoop(<<>>, 1, features)
    IN  IF r.i <= read_len
        THEN Append(r.ops, Op("Match", read_len - r.i + 1))
        ELSE r.ops

resolve_features(features, read_len) ==
    LET r == ResolveFeaturesLoop(<<>>, 1, features)
    IN  IF r.i < read_len
        THEN Append(r.ops, Op("Match", read_len - r.i + 1))
        ELSE r.ops

(***************************************************************************)
(* SpecCram: both resolutions applied to one record's features             *)
(***************************************************************************)
MaxFeatures == 2

MaxReadLen == 4

\* the reference sequence record the reads are resolved against
CramReference == <<"A", "C", "G", "T", "N", "A">>

\* a read at the start of the reference, and one that can run past its end
AlignmentStarts == {1, Len(CramReference) - 2}

FeaturesAt(p) ==
    { Feature("Substitution", p, 1),
      Feature("Insertion", p, <<"G", "T">>),
      Feature("Deletion", p, 1),
      Feature("Deletion", p, 2),
      Feature("InsertBase", p, "T"),
      Feature("ReferenceSkip", p, 2),
      Feature("SoftClip", p, <<"A">>),
      Feature("SoftClip", p, <<"A", "T">>),
      Feature("Padding", p, 1),
      Feature("HardClip", p, 2),
      Feature("QualityScore", p, 30) }

AllFeatures == UNION {FeaturesAt(p) : p \in 1 .. MaxReadLen}

\* feature positions are decoded as running sums of non-negative deltas
FeatureLists ==
    UNION {{fs \in [1 .. n -> AllFeatures] :
                \A k \in 1 .. n - 1 : fs[k].position <= fs[k + 1].position} :
           n \in 0 .. MaxFeatures}

InitCram ==
    /\ pc = "cram"
    /\ BinIdle
    /\ IndexIdle
    /\ DataIdle
    /\ BamIdle
    /\ BuilderIdle
    /\ cram_features \in FeatureLists
    /\ cram_start \in AlignmentStarts
    /\ cram_read_len \in 0 .. MaxReadLen
    /\ resolved_bases = None
    /\ resolved_cigar = None

ResolveBases ==
    /\ pc = "cram"
    /\ resolved_bases = None
    /\ resolved_bases' = resolve_bases(CramReference, SubstitutionMatrixDefault,
                                     cram_features, cram_start, cram_read_len)
    /\ UNCHANGED <<pc, cram_features, cram_start, cram_read_len, resolved_cigar>>
    /\ UNCHANGED <<binVars, indexVars, dataVars, bamVars, builderVars>>

ResolveFeatures ==
    /\ pc = "cram"
    /\ resolved_bases # None
    /\ resolved_cigar = None
    /\ resolved_cigar' = Some(resolve_features(cram_features, cram_read_len))
    /\ UNCHANGED <<pc, cram_features, cram_start, cram_read_len, resolved_bases>>
    /\ UNCHANGED <<binVars, indexVars, dataVars, bamVars, builderVars>>

NextCram == ResolveBases \/ ResolveFeatures

SpecCram == InitCram /\ [][NextCram]_vars

\* C8: with an empty feature list and read_len = n, resolve_bases returns exactly
\* the n reference bytes reference[alignment_start-1 .. alignment_start-1+n],
\* unchanged and in order (whenever the reference holds that many bytes).
C8_NoFeaturesCopiesReference ==
    (/\ resolved_bases # None
     /\ cram_features = <<>>
     /\ cram_start - 1 + cram_read_len <= Len(CramReference))
    => /\ resolved_bases.ok
       /\ Len(resolved_bases.val) = cram_read_len
       /\ \A k \in 1 .. cram_read_len :
            resolved_bases.val[k] = CramReference[cram_start - 1 + k]

\* a read of three bases starting at the fourth reference base was resolved
C8_Witness ==
    /\ cram_features = <<>>
    /\ cram_start = 4
    /\ cram_read_len = 3
    /\ resolved_bases = Ok(<<"T", "N", "A">>)

(***************************************************************************)
(* Bytes: little-endian integers and the ASCII codes the codec uses        *)
(***************************************************************************)
Ord(ch) ==
    CASE ch = "NUL" -> 0   [] ch = "*" -> 42   [] ch = "0" -> 48
      [] ch = "A" -> 65    [] ch = "B" -> 66   [] ch = "C" -> 67
      [] ch = "G" -> 71    [] ch = "H" -> 72   [] ch = "I" -> 73
      [] ch = "N" -> 78    [] ch = "R" -> 82   [] ch = "S" -> 83
      [] ch = "T" -> 84    [] ch = "X" -> 88   [] ch = "Z" -> 90
      [] ch = "a" -> 97    [] ch = "c" -> 99   [] ch = "f" -> 102
      [] ch = "g" -> 103   [] ch = "i" -> 105  [] ch = "n" -> 110
      [] ch = "r" -> 114
      [] ch = "s" -> 115

\* the k-th byte (k = 0 is the lowest) of an integer in two's complement
ByteOf(n, k) ==
    IF n >= 0 THEN (n \div (256 ^ k)) % 256
    ELSE 255 - (((-(n + 1)) \div (256 ^ k)) % 256)

\* put_u8 / put_i8
Le8(n) == <<ByteOf(n, 0)>>

\* put_u16_le / put_i16_le
Le16(n) == <<ByteOf(n, 0), ByteOf(n, 1)>>

\* put_u32_le / put_i32_le
Le32(n) == <<ByteOf(n, 0), ByteOf(n, 1), ByteOf(n, 2), ByteOf(n, 3)>>

\* get_u8 at 1-based offset p
GetU8(src, p) == src[p]

\* get_i8
GetI8(src, p) == IF src[p] >= 128 THEN src[p] - 256 ELSE src[p]

\* get_u16_le
GetU16(src, p) == src[p] + 256 * src[p + 1]

\* get_i16_le
GetI16(src, p) == IF src[p + 1] >= 128 THEN GetU16(src, p) - 65536 ELSE GetU16(src, p)

\* get_i32_le (two's complement, computed without leaving 32 bits)
GetI32(src, p) ==
    IF src[p + 3] >= 128
    THEN -((255 - src[p]) + 256 * (255 - src[p + 1]) + 65536 * (255 - src[p + 2])
           + 16777216 * (255 - src[p + 3])) - 1
    ELSE src[p] + 256 * src[p + 1] + 65536 * src[p + 2] + 16777216 * src[p + 3]

\* get_u32_le; the model's integers stop at 2^31 - 1, and no modelled value is larger
GetU32(src, p) == src[p] + 256 * src[p + 1] + 65536 * src[p + 2] + 16777216 * src[p + 3]

\* the bytes of src from 1-based offset p to the end
From(src, p) == SubSeq(src, p, Len(src))

(***************************************************************************)
(* noodles-sam Data and the auxiliary field codec (specification 4.4)      *)
(***************************************************************************)
Tag(a, b) == <<Ord(a), Ord(b)>>

Value(ty, v) == [ty |-> ty, v |-> v]

\* an array value: subtype and elements
Array(sub, vals) == [ty |-> "Array", sub |-> sub, v |-> vals]

Field(tag, value) == [tag |-> tag, value |-> value]

IntTypes == {"Int8", "UInt8", "Int16", "UInt16", "Int32", "UInt32"}

\* the type byte and payload of an integer: the narrowest type that fits
PutInt(n) ==
    IF n >= 0
    THEN IF n <= 255 THEN <<Ord("C")>> \o Le8(n)
         ELSE IF n <= 65535 THEN <<Ord("S")>> \o Le16(n)
         ELSE <<Ord("I")>> \o Le32(n)
    ELSE IF n >= -128 THEN <<Ord("c")>> \o Le8(n)
         ELSE IF n >= -32768 THEN <<Ord("s")>> \o Le16(n)
         ELSE <<Ord("i")>> \o Le32(n)

\* the elements of a B array of 32-bit integers, 4 bytes each
PutArray32(vals) ==
    [k \in 1 .. 4 * Len(vals) |-> ByteOf(vals[((k - 1) \div 4) + 1], (k - 1) % 4)]

\* the elements of a B array of 8-bit integers
PutArray8(vals) == [k \in 1 .. Len(vals) |-> ByteOf(vals[k], 0)]

\* encoder data::field::put_value with its type byte
PutValue(value) ==
    CASE value.ty \in IntTypes -> PutInt(value.v)
      [] value.ty = "Character" -> <<Ord("A"), value.v>>
      [] value.ty = "String" -> <<Ord("Z")>> \o value.v \o <<0>>
      [] value.ty = "Array" /\ value.sub = "UInt32" ->
            <<Ord("B"), Ord("I")>> \o Le32(Len(value.v)) \o PutArray32(value.v)
      [] value.ty = "Array" /\ value.sub = "UInt8" ->
            <<Ord("B"), Ord("C")>> \o Le32(Len(value.v)) \o PutArray8(value.v)

\* encoder data::field::put_field
PutField(field) == field.tag \o PutValue(field.value)

\* encoder data::put_data
RECURSIVE PutData(_)
PutData(fields) ==
    IF fields = <<>> THEN <<>> ELSE PutField(Head(fields)) \o PutData(Tail(fields))

\* the offset of the first NUL at or after p, 0 if there is none
RECURSIVE FindNul(_, _)
FindNul(src, p) ==
    IF p > Len(src) THEN 0
    ELSE IF src[p] = 0 THEN p
    ELSE FindNul(src, p + 1)

\* a decoded value and the offset after it, or a failure
Got(value, next) == [ok |-> TRUE, value |-> value, next |-> next]

GetFail == [ok |-> FALSE]

\* decoder data::field::get_value for type byte ty with the payload at offset p
GetValue(src, ty, p) ==
    LET has(n) == p + n - 1 <= Len(src)
    IN  CASE ty = Ord("A") -> IF has(1) THEN Got(Value("Character", src[p]), p + 1) ELSE GetFail
          [] ty = Ord("c") -> IF has(1) THEN Got(Value("Int8", GetI8(src, p)), p + 1) ELSE GetFail
          [] ty = Ord("C") -> IF has(1) THEN Got(Value("UInt8", GetU8(src, p)), p + 1) ELSE GetFail
          [] ty = Ord("s") -> IF has(2) THEN Got(Value("Int16", GetI16(src, p)), p + 2) ELSE GetFail
          [] ty = Ord("S") -> IF has(2) THEN Got(Value("UInt16", GetU16(src, p)), p + 2) ELSE GetFail
          [] ty = Ord("i") -> IF has(4) THEN Got(Value("Int32", GetI32(src, p)), p + 4) ELSE GetFail
          [] ty = Ord("I") -> IF has(4) THEN Got(Value("UInt32", GetU32(src, p)), p + 4) ELSE GetFail
          [] ty = Ord("Z") ->
                LET z == FindNul(src, p)
                IN  IF z = 0 THEN GetFail
                    ELSE Got(Value("String", SubSeq(src, p, z - 1)), z + 1)
          [] ty = Ord("B") ->
                IF ~has(5) THEN GetFail
                ELSE LET sub == src[p]
                         n == GetU32(src, p + 1)
                         q == p + 5
                     IN  IF sub = Ord("I")
                         THEN IF q + 4 * n - 1 > Len(src) THEN GetFail
                              ELSE Got(Array("UInt32",
                                             [k \in 1 .. n |-> GetU32(src, q + 4 * (k - 1))]),
                                       q + 4 * n)
                         ELSE IF sub = Ord("C")
                         THEN IF q + n - 1 > Len(src) THEN GetFail
                              ELSE Got(Array("UInt8", [k \in 1 .. n |-> src[q + k - 1]]),
                                       q + n)
                         ELSE GetFail
          [] OTHER -> GetFail

\* decoder data::field::get_field at offset p: tag, type, value
GetField(src, p) ==
    IF p + 2 > Len(src) THEN GetFail
    ELSE LET v == GetValue(src, src[p + 2], p + 3)
         IN  IF v.ok
             THEN [ok |-> TRUE, field |-> Field(<<src[p], src[p + 1]>>, v.value),
                   next |-> v.next]
             ELSE GetFail

\* Data::get_index_of: the index of tag in the fields, 0 if absent
IndexOfTag(fields, tag) ==
    IF \E k \in 1 .. Len(fields) : fields[k].tag = tag
    THEN CHOOSE k \in 1 .. Len(fields) : fields[k].tag = tag
    ELSE 0

\* Data::insert: replaces the field of an existing tag and returns the old one,
\* otherwise pushes the field and returns None
DataInsert(fields, field) ==
    LET k == IndexOfTag(fields, field.tag)
    IN  IF k = 0
        THEN [data |-> Append(fields, field), old |-> None]
        ELSE [data |-> [fields EXCEPT ![k] = field], old |-> Some(fields[k])]

(***************************************************************************)
(* noodles-bam decoder: get_data                                           *)
(***************************************************************************)
DuplicateTag(tag) == [ok |-> FALSE, err |-> "DuplicateTag", tag |-> tag]

InvalidField == [ok |-> FALSE, err |-> "InvalidField"]

OkUnit == [ok |-> TRUE]

RECURSIVE GetDataLoopKeepLast(_, _, _)
GetDataLoopKeepLast(src, p, fields) ==
    IF p > Len(src) THEN [res |-> OkUnit, data |-> fields]
    ELSE LET f == GetField(src, p)
         IN  IF ~f.ok THEN [res |-> InvalidField, data |-> fields]
             ELSE GetDataLoopKeepLast(src, f.next, DataInsert(fields, f.field).data)

\* while src.has_remaining() { get_field; insert; on a returned old field, fail }
RECURSIVE GetDataLoop(_, _, _)
GetDataLoop(src, p, fields) ==
    IF p > Len(src) THEN [res |-> OkUnit, data |-> fields]
    ELSE LET f == GetField(src, p)
         IN  IF ~f.ok THEN [res |-> InvalidField, data |-> fields]
             ELSE LET ins == DataInsert(fields, f.field)
                  IN  IF ins.old # None
                      THEN [res |-> DuplicateTag(ins.old.val.tag), data |-> ins.data]
                      ELSE GetDataLoop(src, f.next, ins.data)

DataKeep(fields) == fields

\* Data::clear
DataClear(fields) == <<>>

get_data_keep_last(src, data_in) == GetDataLoopKeepLast(src, 1, DataClear(data_in))

\* get_data(src, data): the result and the contents of data afterwards
get_data(src, data_in) == GetDataLoop(src, 1, DataClear(data_in))

(***************************************************************************)
(* SpecData: get_data on buffers put together from field encodings         *)
(***************************************************************************)
MaxFields == 3

\* a piece of a buffer: its tag, its bytes, and whether it is a well-formed field
Piece(tag, bytes, wf) == [tag |-> tag, bytes |-> bytes, wf |-> wf]

FieldPiece(field) == Piece(field.tag, PutField(field), TRUE)

Pieces ==
    { FieldPiece(Field(Tag("N", "H"), Value("UInt8", 1))),
      \* NH:i:7, written wider than needed
      Piece(Tag("N", "H"), Tag("N", "H") \o <<Ord("i"), 7, 0, 0, 0>>, TRUE),
      FieldPiece(Field(Tag("R", "G"), Value("String", <<Ord("r"), Ord("g"), Ord("0")>>))),
      FieldPiece(Field(Tag("R", "G"), Value("String", <<>>))),
      FieldPiece(Field(Tag("X", "A"), Value("Character", Ord("c")))),
      FieldPiece(Field(Tag("C", "G"), Array("UInt8", <<1, 2>>))),
      \* an unknown type byte
      Piece(Tag("N", "H"), Tag("N", "H") \o <<Ord("0"), 1>>, FALSE),
      \* a string without its NUL
      Piece(Tag("R", "G"), Tag("R", "G") \o <<Ord("Z"), Ord("r"), Ord("g")>>, FALSE),
      \* a tag without type and value
      Piece(Tag("X", "A"), Tag("X", "A"), FALSE) }

PieceLists == UNION {[1 .. n -> Pieces] : n \in 0 .. MaxFields}

RECURSIVE ConcatBytes(_)
ConcatBytes(ps) == IF ps = <<>> THEN <<>> ELSE Head(ps).bytes \o ConcatBytes(Tail(ps))

\* the buffers of the later calls: empty, two fields, one field, a duplicate,
\* and a field followed by a truncated one
NextPieceLists ==
    { <<>>,
      <<FieldPiece(Field(Tag("X", "A"), Value("Character", Ord("c")))),
        FieldPiece(Field(Tag("N", "H"), Value("UInt8", 1)))>>,
      <<FieldPiece(Field(Tag("R", "G"), Value("String", <<>>)))>>,
      <<FieldPiece(Field(Tag("N", "H"), Value("UInt8", 1))),
        FieldPiece(Field(Tag("N", "H"), Value("UInt8", 1)))>>,
      <<FieldPiece(Field(Tag("C", "G"), Array("UInt8", <<1, 2>>))),
        Piece(Tag("X", "A"), Tag("X", "A"), FALSE)>> }

\* what an earlier call may have left in the Data map
PriorData ==
    { <<>>,
      <<Field(Tag("N", "H"), Value("UInt8", 1))>>,
      <<Field(Tag("X", "A"), Value("Character", Ord("c"))),
        Field(Tag("R", "G"), Value("String", <<Ord("r")>>))>> }

InitData ==
    /\ pc = "data"
    /\ BinIdle
    /\ IndexIdle
    /\ CramIdle
    /\ BamIdle
    /\ BuilderIdle
    /\ src_fields \in PieceLists
    /\ data_src = ConcatBytes(src_fields)
    /\ data \in PriorData
    /\ data_result = None
    /\ data_entry = <<>>

GetData ==
    /\ pc = "data"
    /\ data_result = None
    /\ LET r == get_data(data_src, data)
       IN  /\ data' = r.data
           /\ data_result' = r.res
    /\ data_entry' = data
    /\ UNCHANGED <<pc, src_fields, data_src>>
    /\ UNCHANGED <<binVars, indexVars, cramVars, bamVars, builderVars>>

\* the caller takes the next buffer and hands the same Data map to get_data again
NextBuffer ==
    /\ pc = "data"
    /\ data_result # None
    /\ src_fields' \in NextPieceLists
    /\ data_src' = ConcatBytes(src_fields')
    /\ data_result' = None
    /\ UNCHANGED <<pc, data, data_entry>>
    /\ UNCHANGED <<binVars, indexVars, cramVars, bamVars, builderVars>>

NextData == GetData \/ NextBuffer

SpecData == InitData /\ [][NextData]_vars

\* the number of leading well-formed pieces of the buffer
WellFormedPrefix ==
    IF \A k \in 1 .. Len(src_fields) : src_fields[k].wf THEN Len(src_fields)
    ELSE (CHOOSE k \in 1 .. Len(src_fields) :
              ~src_fields[k].wf /\ \A j \in 1 .. k - 1 : src_fields[j].wf) - 1

\* field j repeats the tag of an earlier field
Repeats(j) == \E i \in 1 .. j - 1 : src_fields[i].tag = src_fields[j].tag

\* C2: get_data returns Err(DuplicateTag(t)) whenever the buffer contains two
\* well-formed fields with the same tag, t being the tag of the first field that
\* repeats an earlier one; it returns Ok only if all tags are pairwise distinct;
\* the buffer NHC\x01NHC\x01 gives DuplicateTag(NH).
C2_DuplicateTagRejected ==
    data_result # None =>
        /\ \A j \in 1 .. WellFormedPrefix :
              (Repeats(j) /\ \A k \in 1 .. j - 1 : ~Repeats(k))
              => data_result = DuplicateTag(src_fields[j].tag)
        /\ (data_result.ok /\ WellFormedPrefix = Len(src_fields))
              => \A i, j \in 1 .. Len(src_fields) :
                    i # j => src_fields[i].tag # src_fields[j].tag
        /\ data_src = <<78, 72, 67, 1, 78, 72, 67, 1>>
              => data_result = DuplicateTag(<<78, 72>>)

\* RG, NH, then NH again: the second NH is reported although RG came first
C2_Witness ==
    /\ Len(src_fields) = 3
    /\ src_fields[1].tag = Tag("R", "G")
    /\ src_fields[2].bytes = <<78, 72, 67, 1>>
    /\ src_fields[3].bytes = <<78, 72, 105, 7, 0, 0, 0>>
    /\ data_result = DuplicateTag(Tag("N", "H"))
    /\ data = <<Field(Tag("R", "G"), Value("String", <<114, 103, 48>>)),
                Field(Tag("N", "H"), Value("Int32", 7))>>

(***************************************************************************)
(* noodles-sam records and CIGARs as the encoder reads them                *)
(***************************************************************************)
\* CIGAR op codes: M=0, I=1, D=2, N=3, S=4, H=5, P=6, '='=7, X=8
KindCode(kind) ==
    CASE kind = "Match" -> 0            [] kind = "Insertion" -> 1
      [] kind = "Deletion" -> 2         [] kind = "Skip" -> 3
      [] kind = "SoftClip" -> 4         [] kind = "HardClip" -> 5
      [] kind = "Pad" -> 6              [] kind = "SequenceMatch" -> 7
      [] kind = "SequenceMismatch" -> 8

CodeKind(code) ==
    CASE code = 0 -> "Match"            [] code = 1 -> "Insertion"
      [] code = 2 -> "Deletion"         [] code = 3 -> "Skip"
      [] code = 4 -> "SoftClip"         [] code = 5 -> "HardClip"
      [] code = 6 -> "Pad"              [] code = 7 -> "SequenceMatch"
      [] code = 8 -> "SequenceMismatch" [] OTHER -> "Invalid"

ConsumesRead(kind) ==
    kind \in {"Match", "Insertion", "SoftClip", "SequenceMatch", "SequenceMismatch"}

ConsumesReference(kind) ==
    kind \in {"Match", "Deletion", "Skip", "SequenceMatch", "SequenceMismatch"}

\* the kinds of the ops of a CIGAR
OpKinds(cigar_ops) == {cigar_ops[k].kind : k \in 1 .. Len(cigar_ops)}

\* the sum of the lengths of the ops whose kind satisfies Sel; the model's CIGARs
\* repeat one length per kind, so the sum is taken kind by kind
RECURSIVE SumLens(_, _)
SumLens(cigar_ops, kinds) ==
    IF kinds = {} THEN 0
    ELSE LET kind == CHOOSE x \in kinds : TRUE
             idx == {k \in 1 .. Len(cigar_ops) : cigar_ops[k].kind = kind}
             len == cigar_ops[CHOOSE k \in idx : TRUE].len
         IN  Cardinality(idx) * len + SumLens(cigar_ops, kinds \ {kind})

\* Cigar::read_length
ReadLength(cigar_ops) ==
    SumLens(cigar_ops, {x \in OpKinds(cigar_ops) : ConsumesRead(x)})

\* Cigar::alignment_span
AlignmentSpan(cigar_ops) ==
    SumLens(cigar_ops, {x \in OpKinds(cigar_ops) : ConsumesReference(x)})

\* RecordBuf::alignment_end: start + span - 1, if that is a position
AlignmentEnd(record) ==
    IF ~record.alignment_start.some THEN None
    ELSE LET end == record.alignment_start.val + AlignmentSpan(record.cigar) - 1
         IN  IF end >= 1 THEN Some(end) ELSE None

ReferenceSequenceLengthOrZero(header, record) ==
    IF ~record.reference_sequence_id.some THEN Some(Ok(0))
    ELSE IF record.reference_sequence_id.val < Len(header)
         THEN Some(Ok(header[record.reference_sequence_id.val + 1]))
         ELSE Some(Err("InvalidData"))

\* Record::reference_sequence(header): the length of the record's reference
\* sequence, None without a reference sequence id
ReferenceSequenceLength(header, record) ==
    IF ~record.reference_sequence_id.some THEN None
    ELSE IF record.reference_sequence_id.val < Len(header)
         THEN Some(Ok(header[record.reference_sequence_id.val + 1]))
         ELSE Some(Err("InvalidData"))

(***************************************************************************)
(* noodles-bam encoder                                                     *)
(***************************************************************************)
\* the destination after a step that succeeded / that failed
Wrote(dst) == [ok |-> TRUE, dst |-> dst]

Failed(dst, kind) == [ok |-> FALSE, dst |-> dst, err |-> kind]

\* the `?` operator: run the next step on the destination, or keep the failure
AndThen(st, Step(_)) == IF st.ok THEN Step(st.dst) ELSE st

\* encoder reference_sequence_id::put_reference_sequence_id
put_reference_sequence_id(dst, header, reference_sequence_id) ==
    IF reference_sequence_id.some
    THEN IF reference_sequence_id.val < Len(header)
         THEN Wrote(dst \o Le32(reference_sequence_id.val))
         ELSE Failed(dst, "InvalidInput")
    ELSE Wrote(dst \o Le32(-1))

\* encoder position::put_position: 0-based, -1 when missing
put_position(dst, position) ==
    IF position.some THEN Wrote(dst \o Le32(position.val - 1))
    ELSE Wrote(dst \o Le32(-1))

U8_MAX == 255

\* sam::record::name::MISSING = b"*"
NAME_MISSING == <<Ord("*")>>

put_l_read_name_wrapping(dst, name) ==
    LET name_len == (IF name.some THEN Len(name.val) ELSE Len(NAME_MISSING)) + 1
    IN  Wrote(dst \o Le8(name_len % 256))

put_l_read_name(dst, name) ==
    LET name_len == (IF name.some THEN Len(name.val) ELSE Len(NAME_MISSING)) + 1
    IN  IF name_len <= U8_MAX
        THEN Wrote(dst \o Le8(name_len))
        ELSE Failed(dst, "InvalidInput")

\* encoder mapping_quality::put_mapping_quality: 255 when missing
put_mapping_quality(dst, mapping_quality) ==
    Wrote(dst \o Le8(IF mapping_quality.some THEN mapping_quality.val ELSE U8_MAX))

put_bin_ignore_end(dst, start, end) ==
    IF start.some
    THEN LET b == region_to_bin(start.val, start.val)
         IN  IF b.ok THEN Wrote(dst \o Le16(b.val)) ELSE Failed(dst, b.err)
    ELSE Wrote(dst \o Le16(UNMAPPED_BIN))

put_bin(dst, start, end) ==
    IF start.some /\ end.some
    THEN LET b == region_to_bin(start.val, end.val)
         IN  IF b.ok THEN Wrote(dst \o Le16(b.val)) ELSE Failed(dst, b.err)
    ELSE Wrote(dst \o Le16(UNMAPPED_BIN))

overflowing_put_cigar_op_count_inclusive(dst, header, record) ==
    IF Len(record.cigar) < U16_MAX
    THEN [ok |-> TRUE, dst |-> dst \o Le16(Len(record.cigar)), cigar |-> None]
    ELSE LET written == dst \o Le16(2)
             k == Len(record.sequence)
             rs == ReferenceSequenceLength(header, record)
         IN  IF ~rs.some THEN Failed(written, "InvalidInput")
             ELSE IF ~rs.val.ok THEN Failed(written, rs.val.err)
             ELSE [ok |-> TRUE, dst |-> written,
                   cigar |-> Some(<<Op("SoftClip", k), Op("Skip", rs.val.val)>>)]

overflowing_put_cigar_op_count_lookup_first(dst, header, record) ==
    IF Len(record.cigar) <= U16_MAX
    THEN [ok |-> TRUE, dst |-> dst \o Le16(Len(record.cigar)), cigar |-> None]
    ELSE LET k == Len(record.sequence)
             rs == ReferenceSequenceLength(header, record)
         IN  IF ~rs.some THEN Failed(dst, "InvalidInput")
             ELSE IF ~rs.val.ok THEN Failed(dst, rs.val.err)
             ELSE [ok |-> TRUE, dst |-> dst \o Le16(2),
                   cigar |-> Some(<<Op("SoftClip", k), Op("Skip", rs.val.val)>>)]

\* writes n_cigar_op; returns the placeholder CIGAR when the count overflows u16
overflowing_put_cigar_op_count(dst, header, record) ==
    IF Len(record.cigar) <= U16_MAX
    THEN [ok |-> TRUE, dst |-> dst \o Le16(Len(record.cigar)), cigar |-> None]
    ELSE LET written == dst \o Le16(2)
             k == Len(record.sequence)
             rs == ReferenceSequenceLength(header, record)
         IN  IF ~rs.some THEN Failed(written, "InvalidInput")
             ELSE IF ~rs.val.ok THEN Failed(written, rs.val.err)
             ELSE [ok |-> TRUE, dst |-> written,
                   cigar |-> Some(<<Op("SoftClip", k), Op("Skip", rs.val.val)>>)]

put_flags(dst, flags) == Wrote(dst \o Le16(flags))

put_template_length_i16(dst, template_length) == Wrote(dst \o Le16(template_length))

put_template_length(dst, template_length) == Wrote(dst \o Le32(template_length))

\* encoder name::put_name: the name, or "*", and a NUL
put_name(dst, name) ==
    Wrote(dst \o (IF name.some THEN name.val ELSE NAME_MISSING) \o <<0>>)

\* (len << 4) | kind
EncodeOp(op) == op.len * 16 + KindCode(op.kind)

DecodeOp(n) == Op(CodeKind(n % 16), n \div 16)

\* the ops of a CIGAR as u32 values
EncodeOps(cigar_ops) == <<>> \o [k \in 1 .. Len(cigar_ops) |-> EncodeOp(cigar_ops[k])]

\* encoder cigar::put_cigar: one u32 per op
put_cigar(dst, cigar_ops) ==
    Wrote(dst \o PutArray32(EncodeOps(cigar_ops)))

\* the 4-bit code of a base in "=ACMGRSVTWYHKDBN"; anything else is N
EncodeBase(base) ==
    CASE base = "=" -> 0 [] base = "A" -> 1 [] base = "C" -> 2 [] base = "M" -> 3
      [] base = "G" -> 4 [] base = "R" -> 5 [] base = "S" -> 6 [] base = "V" -> 7
      [] base = "T" -> 8 [] base = "W" -> 9 [] base = "Y" -> 10 [] base = "H" -> 11
      [] base = "K" -> 12 [] base = "D" -> 13 [] base = "B" -> 14 [] OTHER -> 15

DecodeBase(n) ==
    <<"=", "A", "C", "M", "G", "R", "S", "V", "T", "W", "Y", "H", "K", "D", "B", "N">>[n + 1]

\* encoder sequence::put_sequence: two bases a byte, high nibble first
put_sequence(dst, read_length, sequence) ==
    IF read_length > 0 /\ Len(sequence) # read_length
    THEN Failed(dst, "InvalidInput")
    ELSE Wrote(dst \o [k \in 1 .. (Len(sequence) + 1) \div 2 |->
                          16 * EncodeBase(sequence[2 * k - 1])
                          + (IF 2 * k <= Len(sequence)
                             THEN EncodeBase(sequence[2 * k]) ELSE 0)])

\* encoder quality_scores::put_quality_scores: missing scores are 0xff per base
put_quality_scores(dst, base_count, quality_scores) ==
    IF Len(quality_scores) = base_count THEN Wrote(dst \o quality_scores)
    ELSE IF quality_scores = <<>> THEN Wrote(dst \o [k \in 1 .. base_count |-> U8_MAX])
    ELSE Failed(dst, "InvalidInput")

\* encoder data::put_data
put_data(dst, fields) == Wrote(dst \o PutData(fields))

\* encoder data::field::put_cigar: CG:B,I and one u32 per op
put_cigar_field(dst, cigar_ops) ==
    Wrote(dst \o PutField(Field(Tag("C", "G"), Array("UInt32", EncodeOps(cigar_ops)))))

encode(dst, header, record) ==
    LET ref_id     == put_reference_sequence_id(dst, header, record.reference_sequence_id)
        pos        == AndThen(ref_id, LAMBDA d : put_position(d, record.alignment_start))
        l_read_name == AndThen(pos, LAMBDA d : put_l_read_name(d, record.name))
        mapq       == AndThen(l_read_name,
                              LAMBDA d : put_mapping_quality(d, record.mapping_quality))
        bin_       == AndThen(mapq, LAMBDA d : put_bin(d, record.alignment_start,
                                                       AlignmentEnd(record)))
        n_cigar_op == AndThen(bin_, LAMBDA d : overflowing_put_cigar_op_count(d, header, record))
        cigar      == n_cigar_op.cigar
        flag       == AndThen(n_cigar_op, LAMBDA d : put_flags(d, record.flags))
        l_seq      == AndThen(flag, LAMBDA d : Wrote(d \o Le32(Len(record.sequence))))
        next_ref_id == AndThen(l_seq, LAMBDA d :
                          put_reference_sequence_id(d, header, record.mate_reference_sequence_id))
        next_pos   == AndThen(next_ref_id,
                              LAMBDA d : put_position(d, record.mate_alignment_start))
        tlen       == AndThen(next_pos,
                              LAMBDA d : put_template_length(d, record.template_length))
        read_name  == AndThen(tlen, LAMBDA d : put_name(d, record.name))
        cigar_     == AndThen(read_name, LAMBDA d :
                          IF cigar.some THEN put_cigar(d, cigar.val)
                          ELSE put_cigar(d, record.cigar))
        seq        == AndThen(cigar_, LAMBDA d :
                          put_sequence(d, ReadLength(record.cigar), record.sequence))
        qual       == AndThen(seq, LAMBDA d :
                          put_quality_scores(d, Len(record.sequence), record.quality_scores))
        data_      == AndThen(qual, LAMBDA d : put_data(d, record.data))
        cg         == AndThen(data_, LAMBDA d :
                          IF cigar.some THEN put_cigar_field(d, record.cigar) ELSE Wrote(d))
    IN  IF cg.ok THEN [ok |-> TRUE, dst |-> cg.dst]
        ELSE [ok |-> FALSE, dst |-> cg.dst, err |-> cg.err]

(***************************************************************************)
(* SpecBam: encode applied to records over headers                         *)
(***************************************************************************)
\* a header with no reference sequences, and one with sq0 and sq1
HeaderEmpty == <<>>

HeaderTwo == <<131072, 13>>

RecordBuf(name, flags, reference_sequence_id, alignment_start_, mapping_quality, cigar_ops,
          mate_reference_sequence_id, mate_alignment_start, template_length, sequence,
          quality_scores, fields) ==
    [name |-> name, flags |-> flags, reference_sequence_id |-> reference_sequence_id,
     alignment_start |-> alignment_start_, mapping_quality |-> mapping_quality,
     cigar |-> cigar_ops, mate_reference_sequence_id |-> mate_reference_sequence_id,
     mate_alignment_start |-> mate_alignment_start, template_length |-> template_length,
     sequence |-> sequence, quality_scores |-> quality_scores, data |-> fields]

\* RecordBuf::default(): unmapped, everything else missing or empty
RecordBufDefault ==
    RecordBuf(None, 4, None, None, None, <<>>, None, None, 0, <<>>, <<>>, <<>>)

Repeat(x, n) == <<>> \o [k \in 1 .. n |-> x]

\* names: missing, short, the longest that fits l_read_name, one byte too long
ShortNames == {None, Some(<<Ord("r"), Ord("0")>>)}

LongNames == {Some(Repeat(Ord("n"), 254)), Some(Repeat(Ord("n"), 255))}

\* mapped/paired with mate, or unmapped
FlagsAndMates ==
    {[flags |-> 4, mate_id |-> None, mate_start |-> None, tlen |-> 0, mapq |-> None],
     [flags |-> 69, mate_id |-> Some(1), mate_start |-> Some(22), tlen |-> 144,
      mapq |-> Some(13)],
     [flags |-> 131, mate_id |-> Some(0), mate_start |-> Some(5), tlen |-> -144,
      mapq |-> Some(0)],
     [flags |-> 65, mate_id |-> Some(2), mate_start |-> Some(1), tlen |-> 0,
      mapq |-> Some(60)]}

ReferenceIds == {None, Some(0), Some(1), Some(2)}

Starts == {None, Some(1), Some(9), Some(16384), Some(2 ^ 30 + 1)}

\* CIGAR and bases: matching, empty, a deletion, an odd base count, a mismatch
SmallAlignments ==
    {[cigar |-> <<>>, sequence |-> <<>>],
     [cigar |-> <<Op("Match", 3), Op("SoftClip", 1)>>, sequence |-> <<"A", "C", "G", "T">>],
     [cigar |-> <<Op("Match", 1), Op("Deletion", 2), Op("Insertion", 1)>>,
      sequence |-> <<"N", "T">>],
     [cigar |-> <<>>, sequence |-> <<"A", "C", "G">>],
     [cigar |-> <<Op("Match", 3), Op("SoftClip", 1)>>, sequence |-> <<"A", "C">>]}

\* CIGARs around the u16 limit on the op count
BigAlignments ==
    {[cigar |-> Repeat(Op("Match", 1), U16_MAX + 1), sequence |-> Repeat("A", U16_MAX + 1)],
     [cigar |-> Repeat(Op("HardClip", 1), U16_MAX + 1), sequence |-> <<>>],
     [cigar |-> Repeat(Op("HardClip", 1), U16_MAX), sequence |-> <<>>]}

DataFields ==
    {<<>>,
     <<Field(Tag("N", "H"), Value("Int32", 1))>>,
     <<Field(Tag("N", "H"), Value("Int32", 300)), Field(Tag("R", "G"),
                                                        Value("String", <<Ord("r"), Ord("g")>>))>>,
     <<Field(Tag("C", "G"), Array("UInt32", <<EncodeOp(Op("Match", 3))>>)),
       Field(Tag("X", "A"), Value("Int8", -1))>>}

SmallRecords ==
    {RecordBuf(n, fm.flags, id, st, fm.mapq, al.cigar, fm.mate_id, fm.mate_start, fm.tlen,
               al.sequence, q, fs) :
        n \in ShortNames, fm \in FlagsAndMates, id \in ReferenceIds, st \in Starts,
        al \in {a \in SmallAlignments : Len(a.sequence) # 3}, q \in {<<>>}, fs \in DataFields}
    \cup
    {RecordBuf(n, 4, id, st, None, al.cigar, None, None, 0, al.sequence, q, fs) :
        n \in ShortNames \cup LongNames, id \in {None, Some(0)}, st \in {None, Some(9)},
        al \in SmallAlignments,
        q \in {<<>>, <<45, 35, 43, 50>>}, fs \in {<<>>}}

BigRecords ==
    {RecordBuf(Some(<<Ord("r"), Ord("0")>>), 0, id, Some(1), Some(60), al.cigar, None, None, 0,
               al.sequence, <<>>, fs) :
        id \in {None, Some(0)}, al \in BigAlignments,
        fs \in {f \in DataFields : Len(f) # 1}}

\* Long buffers are held in the state as pages of PageSize elements; the
\* operators of the codec work on the flat sequences
PageSize == 2 ^ 9

Pages(flat) ==
    <<>> \o [i \in 1 .. (Len(flat) + PageSize - 1) \div PageSize |->
                SubSeq(flat, (i - 1) * PageSize + 1, Min(i * PageSize, Len(flat)))]

Flat(pages) ==
    IF pages = <<>> THEN <<>>
    ELSE <<>> \o [k \in 1 .. (Len(pages) - 1) * PageSize + Len(pages[Len(pages)]) |->
                     pages[((k - 1) \div PageSize) + 1][((k - 1) % PageSize) + 1]]

Pack(record) == [record EXCEPT !.cigar = Pages(@), !.sequence = Pages(@)]

Unpack(packed) == [packed EXCEPT !.cigar = Flat(@), !.sequence = Flat(@)]

\* the records of test_encode_with_all_fields and test_encode_with_oversized_cigar
AllFieldsRecord ==
    RecordBuf(Some(<<Ord("r"), Ord("0")>>), 65, Some(1), Some(9), Some(13),
              <<Op("Match", 3), Op("SoftClip", 1)>>, Some(1), Some(22), 144,
              <<"A", "C", "G", "T">>, <<45, 35, 43, 50>>,
              <<Field(Tag("N", "H"), Value("Int32", 1))>>)

OversizedCigarRecord ==
    RecordBuf(None, 0, Some(0), Some(1), None, Repeat(Op("Match", 1), U16_MAX + 1),
              None, None, 0, Repeat("A", U16_MAX + 1), <<>>,
              <<Field(Tag("N", "H"), Value("Int32", 1))>>)

TestRecords == {AllFieldsRecord, OversizedCigarRecord}

\* the arguments put_bin is called with on its own: any pair of optional positions
PutBinPositions == {None, Some(1), Some(8), Some(13), Some(16385), Some(2 ^ 30 + 1)}

InitBam ==
    /\ pc = "bam"
    /\ IndexIdle
    /\ CramIdle
    /\ DataIdle
    /\ BuilderIdle
    /\ \/ /\ bam_header = HeaderEmpty /\ bam_record = Some(Pack(RecordBufDefault))
          /\ BinIdle
       \/ /\ bam_header = HeaderTwo
          /\ bam_record \in {Some(Pack(r)) : r \in SmallRecords \cup BigRecords \cup TestRecords}
          /\ BinIdle
       \/ /\ bam_header = HeaderEmpty /\ bam_record = None
          /\ alignment_start \in PutBinPositions
          /\ alignment_end \in PutBinPositions
          /\ bin = None
    /\ bam_dst = <<>>
    /\ bam_result = None

\* put_bin on its own arguments
PutBin ==
    /\ pc = "bam"
    /\ bam_record = None
    /\ bam_result = None
    /\ LET r == put_bin(Flat(bam_dst), alignment_start, alignment_end)
       IN  /\ bam_dst' = Pages(r.dst)
           /\ bam_result' = IF r.ok THEN OkUnit ELSE Err(r.err)
    /\ UNCHANGED <<pc, bam_header, bam_record>>
    /\ UNCHANGED <<binVars, indexVars, cramVars, dataVars, builderVars>>

Encode ==
    /\ pc = "bam"
    /\ bam_record # None
    /\ bam_result = None
    /\ LET r == encode(Flat(bam_dst), bam_header, Unpack(bam_record.val))
       IN  /\ bam_dst' = Pages(r.dst)
           /\ bam_result' = IF r.ok THEN OkUnit ELSE Err(r.err)
    /\ UNCHANGED <<pc, bam_header, bam_record>>
    /\ UNCHANGED <<binVars, indexVars, cramVars, dataVars, builderVars>>

NextBam == Encode \/ PutBin

SpecBam == InitBam /\ [][NextBam]_vars

(***************************************************************************)
(* The wire image of a record, read back at the offsets of the layout      *)
(***************************************************************************)
\* encode has run
Encoded == bam_record # None /\ bam_result # None

\* the offsets (1-based) of the variable-length sections of a wire image
NameAt == 33

CigarAt(wire) == NameAt + GetU8(wire, 9)

SeqAt(wire) == CigarAt(wire) + 4 * GetU16(wire, 13)

QualAt(wire) == SeqAt(wire) + (GetU32(wire, 17) + 1) \div 2

AuxAt(wire) == QualAt(wire) + GetU32(wire, 17)

\* the inline CIGAR of a wire image
InlineCigar(wire) ==
    LET at == CigarAt(wire)
    IN  <<>> \o [k \in 1 .. GetU16(wire, 13) |-> DecodeOp(GetU32(wire, at + 4 * (k - 1)))]

\* the bases of a wire image
WireBases(wire) ==
    LET at == SeqAt(wire)
    IN  <<>> \o [k \in 1 .. GetU32(wire, 17) |->
                    LET b == wire[at + ((k - 1) \div 2)]
                    IN  DecodeBase(IF k % 2 = 1 THEN b \div 16 ELSE b % 16)]

OptId(id) == IF id.some THEN id.val ELSE -1

OptPos(position) == IF position.some THEN position.val - 1 ELSE -1

\* the bin of a pair of optional positions
ExpectedBin(start, end) ==
    IF start.some /\ end.some THEN region_to_bin(start.val, end.val).val ELSE 4680

\* a record's alignment end, from its start and the reference-consuming ops
RecEnd(rec) ==
    IF rec.alignment_start.some
       /\ rec.alignment_start.val + AlignmentSpan(rec.cigar) - 1 >= 1
    THEN Some(rec.alignment_start.val + AlignmentSpan(rec.cigar) - 1)
    ELSE None

\* C10: the bin put_bin writes is region_to_bin(alignment_start, alignment_end)
\* when both are present and 4680 when either is absent, whatever the rest of
\* the record is: on its own arguments the two bytes it appends, in encode
\* bytes 11-12 of the record
C10_BinFromStartAndEnd ==
    LET wire == Flat(bam_dst)
    IN  /\ (pc = "bam" /\ bam_record = None /\ bam_result # None /\ bam_result.ok)
              => /\ Len(wire) = 2
                 /\ GetU16(wire, 1) = ExpectedBin(alignment_start, alignment_end)
        /\ (pc = "bam" /\ bam_record = None /\ bam_result # None /\ ~bam_result.ok)
              => /\ wire = <<>>
                 /\ alignment_start.some /\ alignment_end.some
                 /\ ~region_to_bin(alignment_start.val, alignment_end.val).ok
        /\ (Encoded /\ Len(wire) >= 12)
              => LET rec == Unpack(bam_record.val)
                 IN  GetU16(wire, 11) = ExpectedBin(rec.alignment_start, RecEnd(rec))

C10_Witness ==
    /\ pc = "bam" /\ bam_record = None /\ bam_result = OkUnit
    /\ alignment_start = Some(8) /\ alignment_end = Some(13)
    /\ Flat(bam_dst) = <<73, 18>>

\* the bytes test_encode_with_default_fields and test_encode_with_all_fields expect
DefaultRecordBytes ==
    <<255, 255, 255, 255,  255, 255, 255, 255,  2,  255,  72, 18,  0, 0,  4, 0,
      0, 0, 0, 0,  255, 255, 255, 255,  255, 255, 255, 255,  0, 0, 0, 0,  42, 0>>

AllFieldsBytes ==
    <<1, 0, 0, 0,  8, 0, 0, 0,  3,  13,  73, 18,  2, 0,  65, 0,  4, 0, 0, 0,
      1, 0, 0, 0,  21, 0, 0, 0,  144, 0, 0, 0,  114, 48, 0,  48, 0, 0, 0,  20, 0, 0, 0,
      18, 72,  45, 35, 43, 50,  78, 72, 67, 1>>

\* the placeholder CIGAR of a record under a header
Placeholder(header, rec) ==
    <<Op("SoftClip", Len(rec.sequence)),
      Op("Skip", header[rec.reference_sequence_id.val + 1])>>

\* the CG:B,I field of a record's CIGAR, byte by byte
CgBytes(rec) ==
    <<67, 71, 66, 73>> \o Le32(Len(rec.cigar))
    \o [k \in 1 .. 4 * Len(rec.cigar) |->
           LET op == rec.cigar[((k - 1) \div 4) + 1]
           IN  ByteOf(op.len * 16 + KindCode(op.kind), (k - 1) % 4)]

\* C9: a successful encode appends, in this order, the 32 bytes of ref_id, pos,
\* l_read_name, mapq, bin, n_cigar_op, flag, l_seq, next_ref_id, next_pos and
\* tlen, then the name and a NUL, the CIGAR ops, the packed bases, the quality
\* scores, the data fields and last the CG field if the escape is used; the
\* default record with an empty header is exactly 34 bytes
C9_WireOrder ==
    (Encoded /\ bam_result.ok) =>
        LET wire == Flat(bam_dst)
            rec == Unpack(bam_record.val)
            escaped == Len(rec.cigar) > 65535
        IN  /\ GetI32(wire, 1) = OptId(rec.reference_sequence_id)
            /\ GetI32(wire, 5) = OptPos(rec.alignment_start)
            /\ GetU8(wire, 9) = (IF rec.name.some THEN Len(rec.name.val) ELSE 1) + 1
            /\ GetU8(wire, 10) = (IF rec.mapping_quality.some THEN rec.mapping_quality.val
                                  ELSE 255)
            /\ GetU16(wire, 11) = ExpectedBin(rec.alignment_start, RecEnd(rec))
            /\ GetU16(wire, 13) = (IF escaped THEN 2 ELSE Len(rec.cigar))
            /\ GetU16(wire, 15) = rec.flags
            /\ GetU32(wire, 17) = Len(rec.sequence)
            /\ GetI32(wire, 21) = OptId(rec.mate_reference_sequence_id)
            /\ GetI32(wire, 25) = OptPos(rec.mate_alignment_start)
            /\ GetI32(wire, 29) = rec.template_length
            /\ SubSeq(wire, NameAt, CigarAt(wire) - 1)
                  = (IF rec.name.some THEN rec.name.val ELSE <<42>>) \o <<0>>
            /\ InlineCigar(wire) = (IF escaped THEN Placeholder(bam_header, rec) ELSE rec.cigar)
            /\ WireBases(wire) = rec.sequence
            /\ SubSeq(wire, QualAt(wire), AuxAt(wire) - 1)
                  = (IF rec.quality_scores = <<>> THEN Repeat(255, Len(rec.sequence))
                     ELSE rec.quality_scores)
            /\ From(wire, AuxAt(wire))
                  = PutData(rec.data) \o (IF escaped THEN CgBytes(rec) ELSE <<>>)
            /\ (rec = RecordBufDefault /\ bam_header = HeaderEmpty)
                  => (Len(wire) = 34 /\ wire = DefaultRecordBytes)
            /\ rec = AllFieldsRecord => wire = AllFieldsBytes

C9_Witness ==
    /\ Encoded /\ bam_result = OkUnit
    /\ bam_record = Some(Pack(RecordBufDefault)) /\ bam_header = HeaderEmpty
    /\ Len(Flat(bam_dst)) = 34

\* the bytes test_encode_with_oversized_cigar expects
OversizedCigarBytes ==
    <<0, 0, 0, 0,  0, 0, 0, 0,  2,  255,  73, 2,  2, 0,  0, 0,  0, 0, 1, 0,
      255, 255, 255, 255,  255, 255, 255, 255,  0, 0, 0, 0,  42, 0,
      4, 0, 16, 0,  3, 0, 32, 0>>
    \o Repeat(17, 32768) \o Repeat(255, 65536)
    \o <<78, 72, 67, 1>>
    \o <<67, 71, 66, 73, 0, 0, 1, 0>>
    \o [k \in 1 .. 4 * 65536 |-> IF k % 4 = 1 THEN 16 ELSE 0]

\* C4: encode takes the oversized-CIGAR escape exactly when the CIGAR has more
\* than 65,535 ops: then n_cigar_op is 2, the inline CIGAR is
\* [SoftClip sequence.len(), Skip reference length] and the real CIGAR follows
\* the data fields as CG:B,I; otherwise n_cigar_op is the CIGAR's length, the
\* inline CIGAR is the record's own and nothing follows the data fields
C4_OversizedCigarEscape ==
    (Encoded /\ bam_result.ok) =>
        LET wire == Flat(bam_dst)
            rec == Unpack(bam_record.val)
            after == AuxAt(wire) + Len(PutData(rec.data))
            cg == GetField(wire, after)
        IN  /\ Len(rec.cigar) > 65535 =>
                  /\ GetU16(wire, 13) = 2
                  /\ InlineCigar(wire) = Placeholder(bam_header, rec)
                  /\ cg.ok
                  /\ cg.next = Len(wire) + 1
                  /\ cg.field.tag = <<67, 71>>
                  /\ cg.field.value.ty = "Array"
                  /\ cg.field.value.sub = "UInt32"
                  /\ LET ops == <<>> \o cg.field.value.v
                     IN  /\ Len(ops) = Len(rec.cigar)
                         /\ \A k \in 1 .. Len(ops) : DecodeOp(ops[k]) = rec.cigar[k]
            /\ Len(rec.cigar) <= 65535 =>
                  /\ GetU16(wire, 13) = Len(rec.cigar)
                  /\ InlineCigar(wire) = rec.cigar
                  /\ Len(wire) = after - 1
            /\ rec = OversizedCigarRecord => wire = OversizedCigarBytes

C4_Witness ==
    /\ Encoded /\ bam_result = OkUnit
    /\ Len(Flat(bam_record.val.cigar)) = 65536
    /\ bam_record.val.sequence = <<>>
    /\ bam_record.val.data = <<>>
    /\ LET wire == Flat(bam_dst)
       IN  /\ GetU16(wire, 13) = 2
           /\ Len(wire) = 32 + 3 + 8 + 8 + 4 * 65536

(***************************************************************************)
(* noodles-bam decoder: a record from its wire image                       *)
(***************************************************************************)
\* the CG field of a data map, None if it has none
CgOf(fields) ==
    LET k == IndexOfTag(fields, <<67, 71>>)
    IN  IF k = 0 THEN None ELSE Some(fields[k])

\* Data::remove
DataRemove(fields, tag) ==
    LET k == IndexOfTag(fields, tag)
    IN  IF k = 0 THEN fields
        ELSE SubSeq(fields, 1, k - 1) \o SubSeq(fields, k + 1, Len(fields))

\* the inverse of encode: the fixed header, the name, the inline CIGAR, the
\* bases, the quality scores and the data fields; then, if the inline CIGAR is
\* [SoftClip l_seq, Skip reference length] and the data hold CG, the CIGAR is
\* CG's ops and CG leaves the data
decode(src, header) ==
    IF Len(src) < 32 \/ Len(src) < AuxAt(src) - 1 THEN Err("UnexpectedEof")
    ELSE
    LET ref_id     == GetI32(src, 1)
        pos        == GetI32(src, 5)
        mapq       == GetU8(src, 10)
        flag       == GetU16(src, 15)
        l_seq      == GetU32(src, 17)
        next_ref_id == GetI32(src, 21)
        next_pos   == GetI32(src, 25)
        tlen       == GetI32(src, 29)
        read_name  == SubSeq(src, NameAt, CigarAt(src) - 2)
        inline     == InlineCigar(src)
        qual       == SubSeq(src, QualAt(src), AuxAt(src) - 1)
        aux        == get_data(From(src, AuxAt(src)), <<>>)
        cg         == CgOf(aux.data)
        escaped    == /\ ref_id >= 0 /\ ref_id < Len(header)
                      /\ inline = <<Op("SoftClip", l_seq), Op("Skip", header[ref_id + 1])>>
                      /\ cg.some
                      /\ cg.val.value.ty = "Array" /\ cg.val.value.sub = "UInt32"
        OptOf(n)   == IF n = -1 THEN None ELSE Some(n)
    IN  IF ref_id >= Len(header) \/ next_ref_id >= Len(header)
        THEN Err("InvalidReferenceSequenceId")
        ELSE IF ~aux.res.ok THEN aux.res
        ELSE Ok(RecordBuf(
                 IF read_name = NAME_MISSING THEN None ELSE Some(read_name),
                 flag,
                 OptOf(ref_id),
                 IF pos = -1 THEN None ELSE Some(pos + 1),
                 IF mapq = U8_MAX THEN None ELSE Some(mapq),
                 IF escaped
                 THEN LET ops == <<>> \o cg.val.value.v
                      IN  <<>> \o [k \in 1 .. Len(ops) |-> DecodeOp(ops[k])]
                 ELSE inline,
                 OptOf(next_ref_id),
                 IF next_pos = -1 THEN None ELSE Some(next_pos + 1),
                 tlen,
                 WireBases(src),
                 IF \A k \in 1 .. Len(qual) : qual[k] = U8_MAX THEN <<>> ELSE qual,
                 IF escaped THEN DataRemove(aux.data, <<67, 71>>) ELSE aux.data))

\* a data map with every integer taken to one common integer type
Promoted(fields) ==
    [k \in 1 .. Len(fields) |->
        IF fields[k].value.ty \in IntTypes
        THEN Field(fields[k].tag, Value("Int", fields[k].value.v))
        ELSE Field(fields[k].tag,
                   IF fields[k].value.ty = "Array"
                   THEN Array(fields[k].value.sub, <<>> \o fields[k].value.v)
                   ELSE fields[k].value)]

\* C1: decoding what encode wrote gives back the record, field by field, up to
\* the integer types of the data fields; the data fields written are accepted
\* by get_data
C1_RoundTrip ==
    (Encoded /\ bam_result.ok) =>
        LET wire == Flat(bam_dst)
            rec == Unpack(bam_record.val)
            back == decode(wire, bam_header)
        IN  /\ get_data(From(wire, AuxAt(wire)), <<>>).res.ok
            /\ back.ok
            /\ [back.val EXCEPT !.data = Promoted(@)] = [rec EXCEPT !.data = Promoted(@)]

\* the same, for the records whose CIGAR is written inline
C1_RoundTripInline ==
    (Encoded /\ bam_result.ok /\ Len(Flat(bam_record.val.cigar)) <= 65535) =>
        LET wire == Flat(bam_dst)
            rec == Unpack(bam_record.val)
            back == decode(wire, bam_header)
        IN  /\ back.ok
            /\ [back.val EXCEPT !.data = Promoted(@)] = [rec EXCEPT !.data = Promoted(@)]

\* the same, for the records with an oversized CIGAR and no CG field of their own
C1_RoundTripEscapedWithoutCg ==
    (Encoded /\ bam_result.ok /\ Len(Flat(bam_record.val.cigar)) > 65535
     /\ ~CgOf(bam_record.val.data).some) =>
        LET wire == Flat(bam_dst)
            rec == Unpack(bam_record.val)
            back == decode(wire, bam_header)
        IN  /\ back.ok
            /\ [back.val EXCEPT !.data = Promoted(@)] = [rec EXCEPT !.data = Promoted(@)]

(***************************************************************************)
(* Error paths of encode                                                   *)
(***************************************************************************)
\* the length of a record's name, 1 for a missing name ("*")
NameLen(rec) == IF rec.name.some THEN Len(rec.name.val) ELSE 1

\* C11: put_l_read_name writes the one byte name.len() + 1 (2 for a missing
\* name) when the name has at most 254 bytes, and fails with InvalidInput
\* without writing that byte when it has 255 or more; so a record encode
\* accepts has a name of at most 254 bytes
C11_ReadNameLengthFitsByte ==
    Encoded =>
        LET wire == Flat(bam_dst)
            rec == bam_record.val
        IN  /\ Len(wire) >= 9 =>
                  /\ NameLen(rec) <= 254
                  /\ GetU8(wire, 9) = NameLen(rec) + 1
                  /\ ~rec.name.some => GetU8(wire, 9) = 2
            /\ NameLen(rec) >= 255 =>
                  /\ bam_result = Err("InvalidInput")
                  /\ Len(wire) <= 8
            /\ bam_result.ok => NameLen(rec) <= 254

C11_Witness ==
    /\ Encoded
    /\ bam_record.val.name.some /\ Len(bam_record.val.name.val) = 255
    /\ bam_result = Err("InvalidInput")
    /\ Len(Flat(bam_dst)) = 8

\* C12: a record with more than 65,535 CIGAR ops and no reference sequence id
\* makes encode fail (missing reference sequence); no placeholder CIGAR with
\* some reference length is written
C12_OversizedCigarNeedsReference ==
    (Encoded /\ Len(Flat(bam_record.val.cigar)) > 65535
     /\ ~bam_record.val.reference_sequence_id.some) =>
        LET wire == Flat(bam_dst)
        IN  /\ ~bam_result.ok
            /\ bam_result = Err("InvalidInput")
            /\ Len(wire) <= 14

C12_Witness ==
    /\ Encoded
    /\ Len(Flat(bam_record.val.cigar)) = 65536
    /\ bam_record.val.sequence = <<>>
    /\ ~bam_record.val.reference_sequence_id.some
    /\ bam_result = Err("InvalidInput")
    /\ Len(Flat(bam_dst)) = 14

(***************************************************************************)
(* region_to_bin: the 16-bit range of the result                           *)
(***************************************************************************)
\* C13: region_to_bin returns no wrapped or truncated value: for start <= end
\* it returns Ok(b) only when the computed bin b is at most 65,535, and an
\* InvalidInput error when the computed bin needs more than 16 bits
C13_BinFitsSixteenBits ==
    pc = "done" =>
        LET b == reg2bin(alignment_start - 1, alignment_end)
        IN  /\ bin.ok => (bin.val = b /\ 0 <= bin.val /\ bin.val <= 65535)
            /\ b <= 65535 => bin = Ok(b)
            /\ b > 65535 => bin = Err("InvalidInput")

\* a region in the first window whose bin number is 65,536
C13_Witness ==
    /\ pc = "done"
    /\ alignment_start = 60855 * 16384 + 1
    /\ alignment_end = alignment_start
    /\ reg2bin(alignment_start - 1, alignment_end) = 65536
    /\ bin = Err("InvalidInput")

(***************************************************************************)
(* get_data on a reused Data map                                           *)
(***************************************************************************)
\* the field each well-formed piece of the buffers stands for
PieceField(piece) ==
    CASE piece.bytes = <<78, 72, 67, 1>> -> Field(<<78, 72>>, Value("UInt8", 1))
      [] piece.bytes = <<78, 72, 105, 7, 0, 0, 0>> -> Field(<<78, 72>>, Value("Int32", 7))
      [] piece.bytes = <<82, 71, 90, 114, 103, 48, 0>> ->
            Field(<<82, 71>>, Value("String", <<114, 103, 48>>))
      [] piece.bytes = <<82, 71, 90, 0>> -> Field(<<82, 71>>, Value("String", <<>>))
      [] piece.bytes = <<88, 65, 65, 99>> -> Field(<<88, 65>>, Value("Character", 99))
      [] piece.bytes = <<67, 71, 66, 67, 2, 0, 0, 0, 1, 2>> ->
            Field(<<67, 71>>, Array("UInt8", <<1, 2>>))

\* C14: a Data map may be reused across get_data calls: after a successful
\* call it holds exactly the fields of the buffer, in the order they appear in
\* the buffer, whatever it held on entry (fields of an earlier successful or
\* failed call included); with an empty buffer it is empty
C14_DataReuse ==
    (pc = "data" /\ data_result # None /\ data_result.ok
     /\ \A k \in 1 .. Len(src_fields) : src_fields[k].wf) =>
        /\ Len(data) = Len(src_fields)
        /\ \A k \in 1 .. Len(src_fields) :
              /\ data[k].tag = PieceField(src_fields[k]).tag
              /\ data[k].value.ty = PieceField(src_fields[k]).value.ty
              /\ data[k].value.v = PieceField(src_fields[k]).value.v
        /\ data_src = <<>> => data = <<>>

\* the map held RG and NH:7 after a call that failed on a duplicate NH; the next
\* call, on XA then NH:1, leaves exactly XA and NH:1
C14_Witness ==
    /\ pc = "data"
    /\ data_result = OkUnit
    /\ data_src = <<88, 65, 65, 99, 78, 72, 67, 1>>
    /\ Len(data_entry) = 2
    /\ data_entry[1].tag = <<82, 71>>
    /\ data_entry[2].tag = <<78, 72>>
    /\ data_entry[2].value = Value("Int32", 7)
    /\ Len(data) = 2
    /\ data[1] = Field(<<88, 65>>, Value("Character", 99))
    /\ data[2] = Field(<<78, 72>>, Value("UInt8", 1))

(***************************************************************************)
(* The bin Builder on its own: a fresh Builder, any sequence of add_chunk  *)
(* calls, then build.                                                      *)
(***************************************************************************)

MaxAdds == 3

\* the chunks of test_add_chunk
TestChunks == {Chunk(5, 13), Chunk(8, 21), Chunk(34, 55)}

\* chunks with start <= end, in any order
BuilderChunks == Chunks \cup TestChunks

InitBuilder ==
    /\ pc = "builder"
    /\ BinIdle
    /\ IndexIdle
    /\ CramIdle
    /\ DataIdle
    /\ BamIdle
    /\ bin_builder = BuilderDefault
    /\ added = <<>>
    /\ built = None

SetId ==
    /\ pc = "builder"
    /\ added = <<>>
    /\ bin_builder.id = 0
    /\ bin_builder' = set_id(bin_builder, 8)
    /\ UNCHANGED <<pc, added, built>>
    /\ UNCHANGED <<binVars, indexVars, cramVars, dataVars, bamVars>>

AddChunk ==
    /\ pc = "builder"
    /\ Len(added) < MaxAdds
    /\ \E chunk \in BuilderChunks :
        /\ bin_builder' = add_chunk(bin_builder, chunk)
        /\ added' = Append(added, chunk)
    /\ UNCHANGED <<pc, built>>
    /\ UNCHANGED <<binVars, indexVars, cramVars, dataVars, bamVars>>

Build ==
    /\ pc = "builder"
    /\ pc' = "built"
    /\ built' = build(bin_builder)
    /\ UNCHANGED <<bin_builder, added>>
    /\ UNCHANGED <<binVars, indexVars, cramVars, dataVars, bamVars>>

NextBuilder == SetId \/ AddChunk \/ Build

SpecBuilder == InitBuilder /\ [][NextBuilder]_vars

\* C15: an add_chunk whose chunk starts at or before the end of the last chunk
\* replaces the last chunk by (last.start, max(last.end, chunk.end)) and keeps the
\* length of the list; any other add_chunk appends the chunk; the earlier chunks
\* are unchanged either way.
C15_AddChunkMergesToMax ==
    [][(pc = "builder" /\ Len(added') = Len(added) + 1) =>
        LET chunk == Last(added')
            n == Len(bin_builder.chunks)
        IN  IF n > 0 /\ bin_builder.chunks[n].end >= chunk.start
            THEN bin_builder'.chunks =
                     [bin_builder.chunks EXCEPT
                         ![n] = Chunk(bin_builder.chunks[n].start,
                                      Max(bin_builder.chunks[n].end, chunk.end))]
            ELSE bin_builder'.chunks = Append(bin_builder.chunks, chunk)]_vars

\* the smallest start over a non-empty chunk list
MinStart(chunks) ==
    CHOOSE s \in {chunks[i].start : i \in 1 .. Len(chunks)} :
        \A i \in 1 .. Len(chunks) : s <= chunks[i].start

\* C16: a fresh Builder has loffset MAX and no chunks, and after one or more
\* add_chunk calls the built Bin's loffset is the smallest start over the chunks
\* of its chunk list.
C16_LoffsetIsMinStartOfChunkList ==
    /\ (pc = "builder" /\ added = <<>>) =>
           (bin_builder.loffset = VIRTUAL_POSITION_MAX /\ bin_builder.chunks = <<>>)
    /\ (pc = "built" /\ Len(added) >= 1) =>
           built.loffset = MinStart(built.chunks)

\* C17: after any sequence of add_chunk calls the chunk list is ordered by start.
C17_ChunkListOrderedByStart ==
    pc \in {"builder", "built"} =>
        \A i \in 1 .. Len(bin_builder.chunks) - 1 :
            bin_builder.chunks[i].start <= bin_builder.chunks[i + 1].start

\* C18: update(start, end, chunk) leaves a vector of length
\* max(old length, ((end-1)>>14)+1); an entry in the window range
\* [(start-1)>>14 .. (end-1)>>14] that was default (or is new) holds chunk.start,
\* every other entry holds what it held before (default when new); the vector
\* never shrinks.  Inserting (1, 16384, (5,13)) into the empty index gives [5],
\* and then (16385, 16385, (21,34)) gives [5, 21].
C18_UpdateFrame ==
    [][(pc = "index" /\ Len(inserted') = Len(inserted) + 1) =>
        LET r   == Last(inserted')
            so  == Shr(r.start - 1, 14)
            eo  == Shr(r.end - 1, 14)
            old == linear_index
            new == linear_index'
        IN  /\ Len(new) = Max(Len(old), eo + 1)
            /\ Len(new) >= Len(old)
            /\ \A i \in 1 .. Len(new) :
                   LET before == IF i <= Len(old) THEN old[i] ELSE VIRTUAL_POSITION_DEFAULT
                   IN  new[i] = IF /\ so <= i - 1
                                   /\ i - 1 <= eo
                                   /\ before = VIRTUAL_POSITION_DEFAULT
                                THEN r.chunk.start
                                ELSE before
            /\ (old = <<>> /\ r = [start |-> 1, end |-> 16384, chunk |-> Chunk(5, 13)])
                   => new = <<5>>
            /\ (old = <<5>> /\ r = [start |-> 16385, end |-> 16385, chunk |-> Chunk(21, 34)])
                   => new = <<5, 21>>]_vars

C18_Witness ==
    /\ pc = "index"
    /\ inserted = <<[start |-> 1, end |-> 16384, chunk |-> Chunk(5, 13)],
                    [start |-> 16385, end |-> 16385, chunk |-> Chunk(21, 34)]>>
    /\ linear_index = <<5, 21>>

\* the inserted records whose interval overlaps window w (0-based)
WindowRecords(w) ==
    {k \in 1 .. Len(inserted) :
        Shr(inserted[k].start - 1, 14) <= w /\ w <= Shr(inserted[k].end - 1, 14)}

\* C19: after updates made in coordinate order, entry i of the linear index is the
\* smallest chunk.start among the inserted records overlapping window i, and is the
\* default position exactly when no inserted record overlaps window i;
\* min_offset(start) is entry (start-1)>>14, or the default past the end.
C19_EntriesAreWindowMinimum ==
    (pc = "index" /\ CoordinateOrder) =>
        /\ \A i \in 1 .. Len(linear_index) :
               LET ks == WindowRecords(i - 1)
               IN  /\ (linear_index[i] = VIRTUAL_POSITION_DEFAULT) <=> (ks = {})
                   /\ ks # {} =>
                          /\ \E k \in ks : linear_index[i] = inserted[k].chunk.start
                          /\ \A k \in ks : linear_index[i] <= inserted[k].chunk.start
        /\ \A start \in IndexPositions :
               min_offset(linear_index, start) =
                   IF Shr(start - 1, 14) < Len(linear_index)
                   THEN linear_index[Shr(start - 1, 14) + 1]
                   ELSE VIRTUAL_POSITION_DEFAULT

(***************************************************************************)
(* encode: what dst holds when a header-derived value cannot be resolved   *)
(***************************************************************************)
\* an id that names no reference sequence of the header
IdOutOfRange(header, id) == id.some /\ id.val >= Len(header)

\* a failure of encode that is not about the header: the name is too long or
\* the bin does not fit
FailsBeforeCigar(rec) ==
    \/ NameLen(rec) + 1 > U8_MAX
    \/ /\ rec.alignment_start.some
       /\ RecEnd(rec).some
       /\ ~region_to_bin(rec.alignment_start.val, RecEnd(rec).val).ok

\* the header-derived value whose resolution makes encode fail, "none" when
\* encode fails for another reason first or does not fail on one of them
FailedResolution(header, rec) ==
    IF IdOutOfRange(header, rec.reference_sequence_id) THEN "reference_sequence_id"
    ELSE IF FailsBeforeCigar(rec) THEN "none"
    ELSE IF Len(rec.cigar) > U16_MAX /\ ~rec.reference_sequence_id.some
         THEN "reference_length"
    ELSE IF IdOutOfRange(header, rec.mate_reference_sequence_id)
         THEN "mate_reference_sequence_id"
    ELSE "none"

\* the first 14 bytes of a record: ref_id, pos, l_read_name, mapq, bin, n_cigar_op
FixedThroughCigarCount(rec) ==
    Le32(OptId(rec.reference_sequence_id)) \o Le32(OptPos(rec.alignment_start))
        \o Le8(NameLen(rec) + 1)
        \o Le8(IF rec.mapping_quality.some THEN rec.mapping_quality.val ELSE 255)
        \o Le16(ExpectedBin(rec.alignment_start, RecEnd(rec)))
        \o Le16(IF Len(rec.cigar) > U16_MAX THEN 2 ELSE Len(rec.cigar))

\* C20 (as claimed): every header-derived value is resolved before the first byte
\* is written, so an encode that fails on resolving one leaves dst empty.
C20_NoBytesOnFailedResolution ==
    Encoded =>
        LET wire == Flat(bam_dst)
            rec == Unpack(bam_record.val)
        IN  FailedResolution(bam_header, rec) # "none"
                => (~bam_result.ok /\ wire = <<>>)

\* C20 (amended): only reference_sequence_id is resolved before the first byte.
\* An encode that fails on it leaves dst empty; one that fails on the reference
\* length of an oversized CIGAR leaves the 14 bytes ref_id .. n_cigar_op (n_cigar_op
\* = 2); one that fails on mate_reference_sequence_id leaves the 20 bytes
\* ref_id .. l_seq.
C20_BytesBeforeFailedResolution ==
    Encoded =>
        LET wire == Flat(bam_dst)
            rec == Unpack(bam_record.val)
            failed == FailedResolution(bam_header, rec)
        IN  /\ failed # "none" => bam_result = Err("InvalidInput")
            /\ failed = "reference_sequence_id" => wire = <<>>
            /\ failed = "reference_length" =>
                   /\ Len(wire) = 14
                   /\ wire = FixedThroughCigarCount(rec)
                   /\ GetU16(wire, 13) = 2
            /\ failed = "mate_reference_sequence_id" =>
                   /\ Len(wire) = 20
                   /\ wire = FixedThroughCigarCount(rec) \o Le16(rec.flags)
                                 \o Le32(Len(rec.sequence))

\* an encode that failed on the mate's reference sequence id, after 20 bytes
C20_Witness ==
    /\ Encoded
    /\ bam_record.val.reference_sequence_id = Some(0)
    /\ bam_record.val.mate_reference_sequence_id = Some(2)
    /\ bam_header = HeaderTwo
    /\ bam_result = Err("InvalidInput")
    /\ Len(Flat(bam_dst)) = 20

(***************************************************************************)
(* resolve_features: the walk as a cursor sequence                         *)
(***************************************************************************)
\* the variants resolve_features turns into an op
OpFeatureKinds ==
    {"Substitution", "Insertion", "Deletion", "InsertBase", "ReferenceSkip",
     "SoftClip", "Padding", "HardClip"}

Handled(features) == \A k \in 1 .. Len(features) : features[k].kind \in OpFeatureKinds

\* the op of a feature: Substitution M 1, Insertion I len(bases), Deletion D n,
\* InsertBase I 1, ReferenceSkip N n, SoftClip S len(bases), Padding P n, HardClip H n
OpOf(feature) ==
    LET k == feature.kind
    IN  IF k = "Substitution" THEN Op("Match", 1)
        ELSE IF k = "InsertBase" THEN Op("Insertion", 1)
        ELSE IF k = "Insertion" THEN Op("Insertion", Len(feature.arg))
        ELSE IF k = "SoftClip" THEN Op("SoftClip", Len(feature.arg))
        ELSE IF k = "Deletion" THEN Op("Deletion", feature.arg)
        ELSE IF k = "ReferenceSkip" THEN Op("Skip", feature.arg)
        ELSE IF k = "Padding" THEN Op("Pad", feature.arg)
        ELSE Op("HardClip", feature.arg)

\* the cursor i after the first k features: it starts at 1, moves up to a feature's
\* position when that is ahead, and advances by the length of the feature's op
CursorAfter(features, upto) ==
    LET c[k \in 0 .. Len(features)] ==
            IF k = 0 THEN 1
            ELSE Max(c[k - 1], features[k].position) + OpOf(features[k]).len
    IN  c[upto]

\* the ops emitted for the first k features: a Match for the gap before a feature
\* that lies ahead of the cursor, then the feature's op
WalkedOps(features, upto) ==
    LET w[k \in 0 .. Len(features)] ==
            IF k = 0 THEN <<>>
            ELSE w[k - 1]
                   \o (IF features[k].position > CursorAfter(features, k - 1)
                       THEN <<Op("Match",
                                 features[k].position - CursorAfter(features, k - 1))>>
                       ELSE <<>>)
                   \o <<OpOf(features[k])>>
    IN  w[upto]

\* the final op for cursor i
FinalMatch(i, read_len) ==
    IF i < read_len THEN <<Op("Match", read_len - i + 1)>> ELSE <<>>

C22_WalkInOrder ==
    (resolved_cigar # None /\ Handled(cram_features)) =>
        LET n == Len(cram_features)
            walked == WalkedOps(cram_features, n)
        IN  /\ Len(resolved_cigar.val) >= Len(walked)
            /\ SubSeq(resolved_cigar.val, 1, Len(walked)) = walked
            /\ \A k \in 1 .. n :
                   cram_features[k].position <= CursorAfter(cram_features, k - 1)
                       => Len(WalkedOps(cram_features, k))
                              = Len(WalkedOps(cram_features, k - 1)) + 1

\* a soft clip ahead of the cursor and then a deletion behind it: S is preceded
\* by a gap, D is not
C22_Witness ==
    /\ resolved_cigar # None
    /\ cram_read_len = 4
    /\ cram_features = <<Feature("SoftClip", 2, <<"A", "T">>), Feature("Deletion", 2, 1)>>
    /\ resolved_cigar.val = <<Op("Match", 1), Op("SoftClip", 2), Op("Deletion", 1)>>

(***************************************************************************)
(* resolve_bases: the two cursors per feature variant                      *)
(***************************************************************************)
\* how far a feature moves read_pos: Substitution and InsertBase by one,
\* Insertion and SoftClip by their bases, the others not at all
ReadAdvance(feature) ==
    IF feature.kind \in {"Substitution", "InsertBase"} THEN 1
    ELSE IF feature.kind \in {"Insertion", "SoftClip"} THEN Len(feature.arg)
    ELSE 0

\* how far a feature moves ref_pos: Substitution by one, Deletion and
\* ReferenceSkip by n, the others not at all
RefAdvance(feature) ==
    IF feature.kind = "Substitution" THEN 1
    ELSE IF feature.kind \in {"Deletion", "ReferenceSkip"} THEN feature.arg
    ELSE 0

\* read_pos after the first k features: reference is copied up to position - 1
\* before a feature, then the feature moves the cursor
ReadPosAfter(features, upto) ==
    LET r[k \in 0 .. Len(features)] ==
            IF k = 0 THEN 0
            ELSE Max(r[k - 1], features[k].position - 1) + ReadAdvance(features[k])
    IN  r[upto]

\* ref_pos after the first k features
RefPosAfter(features, start, upto) ==
    LET f[k \in 0 .. Len(features)] ==
            IF k = 0 THEN start - 1
            ELSE f[k - 1]
                   + (Max(ReadPosAfter(features, k - 1), features[k].position - 1)
                        - ReadPosAfter(features, k - 1))
                   + RefAdvance(features[k])
    IN  f[upto]

\* the features describe a read of read_len bases that the reference covers
FitsRead(features, start, read_len) ==
    LET n == Len(features)
    IN  /\ \A k \in 1 .. n :
               /\ ReadPosAfter(features, k) <= read_len
               /\ RefPosAfter(features, start, k) <= Len(CramReference)
        /\ RefPosAfter(features, start, n) + (read_len - ReadPosAfter(features, n))
               <= Len(CramReference)

\* C23: resolve_bases completes and returns exactly read_len bases for every list
\* of the variants Substitution, Insertion, SoftClip, InsertBase, Deletion,
\* ReferenceSkip, HardClip and Padding that describes such a read.
C23_ResolveBasesCompletes ==
    (/\ resolved_bases # None
     /\ Handled(cram_features)
     /\ FitsRead(cram_features, cram_start, cram_read_len))
    => /\ resolved_bases.ok
       /\ Len(resolved_bases.val) = cram_read_len

\* C24: after any sequence of add_chunk calls on a fresh Builder no two adjacent
\* stored chunks are mergeable: chunks[i+1].start > chunks[i].end for every i.
C24_AdjacentChunksNotMergeable ==
    pc \in {"builder", "built"} =>
        \A i \in 1 .. Len(bin_builder.chunks) - 1 :
            bin_builder.chunks[i + 1].start > bin_builder.chunks[i].end

\* three chunks were added out of order: the second merged into the first and
\* pulled its end back, the third was appended after that end
C24_Witness ==
    /\ pc = "builder"
    /\ added = <<Chunk(2, 2), Chunk(0, 0), Chunk(1, 1)>>
    /\ bin_builder.chunks = <<Chunk(2, 0), Chunk(1, 1)>>

\* no two fields of a data map share a tag
UniqueTags(fields) ==
    \A i, j \in 1 .. Len(fields) : fields[i].tag = fields[j].tag => i = j

\* C25: for every record whose data map has unique tags, also one with more than
\* 65,535 CIGAR operations whose data already holds a CG field, the auxiliary
\* payload of a successful encode holds no tag twice: get_data on it does not
\* fail with DuplicateTag.
C25_AuxPayloadTagsUnique ==
    (Encoded /\ bam_result.ok) =>
        LET wire == Flat(bam_dst)
            rec == Unpack(bam_record.val)
            r == get_data(From(wire, AuxAt(wire)), <<>>)
        IN  UniqueTags(rec.data) => (r.res.ok \/ r.res.err # "DuplicateTag")

\* feature positions strictly increase
IncreasingPositions(features) ==
    \A k \in 1 .. Len(features) - 1 : features[k].position < features[k + 1].position

\* the read bases a CIGAR consumes: the lengths of its M, I and S ops
ReadBases(ops) ==
    LET s[k \in 0 .. Len(ops)] ==
            IF k = 0 THEN 0
            ELSE s[k - 1] + (IF ops[k].kind \in {"Match", "Insertion", "SoftClip"}
                             THEN ops[k].len ELSE 0)
    IN  s[Len(ops)]

\* C26: for a feature list with increasing positions that describes a read of
\* read_len bases, the M, I and S lengths of the CIGAR of resolve_features sum to
\* read_len, the length resolve_bases returns for the read.
C26_CigarConsumesReadLength ==
    (/\ resolved_cigar # None
     /\ Handled(cram_features)
     /\ IncreasingPositions(cram_features)
     /\ FitsRead(cram_features, cram_start, cram_read_len))
    => /\ ReadBases(resolved_cigar.val) = cram_read_len
       /\ resolved_bases.ok => Len(resolved_bases.val) = cram_read_len

====
